---- MODULE Spec2Model ----
(***************************************************************************)
(* A model of jsont: the JSON tokenizer of jsont.c (jsont_ctx_t and the    *)
(* functions working on it) and the JSON builders of jsont.hh and jsont.h. *)
(*                                                                         *)
(* A byte is a one-character string; the byte 0x00 is written NUL.  The    *)
(* input buffer is a sequence of bytes and a pointer into it is the offset *)
(* from input_buf (0 .. input_len); the null pointer is NULL.              *)
(***************************************************************************)
EXTENDS Integers, Sequences, FiniteSets, TLC

VARIABLES
  input,          \* input_buf[0 .. input_len-1]
  ptr,            \* input_buf_ptr - input_buf
  value_start,    \* input_buf_value_start - input_buf, or NULL
  value_end,      \* input_buf_value_end - input_buf, or NULL
  error_info,     \* error_info
  curr_tok,       \* curr_tok
  st_stack,       \* st_stack[0 .. st_stack_len-1]
  ret,            \* what the last call of jsont_next returned
  dispatch,       \* the bytes the switch of the last call branched on
  history,        \* the tokens returned since the last reset, with their slices
  opens,          \* number of OBJECT_START/ARRAY_START returned since reset
  closes,         \* number of OBJECT_END/ARRAY_END returned since reset
  reset_from,     \* what the context held when jsont_reset was last called on it
  errno,          \* errno
  int_call,       \* the call of jsont_int_value on the current token, if any
  b_buf,          \* Builder::_buf[0 .. _size-1]
  b_alloc,        \* Builder::_buf != 0
  b_capacity,     \* Builder::_capacity
  b_state,        \* Builder::_state
  b_grown,        \* the reallocations of the last call on the builder
  b_steps,        \* the reserve calls and the writes of that call, in order
  seized,         \* what the last seizeBytes handed out
  b_kind,         \* which Builder it is: "hh" (jsont.hh) or "h" (jsont.h)
  b_prev,         \* the builder before the last call on it
  b_seq,          \* the calls made on the builder since its construction
  calls,          \* the calls the program is still to make on the builder
  driver          \* the round-trip driver: "run", "end" or "error"

scanner == <<input, ptr, value_start, value_end, error_info, curr_tok, st_stack>>
ghost   == <<ret, dispatch, history, opens, closes, reset_from>>
accessor == <<errno, int_call>>
builder == <<b_buf, b_alloc, b_capacity, b_state, b_grown, b_steps, seized,
            b_kind, b_prev, b_seq, calls>>
vars == <<scanner, ghost, accessor, builder, driver>>

---------------------------------------------------------------------------
(* Token types, jsont.h *)
JSONT_END == 0
JSONT_ERR == 1
JSONT_OBJECT_START == 2
JSONT_OBJECT_END == 3
JSONT_ARRAY_START == 4
JSONT_ARRAY_END == 5
JSONT_TRUE == 6
JSONT_FALSE == 7
JSONT_NULL == 8
_JSONT_VALUES_START == 9
JSONT_NUMBER_INT == 10
JSONT_NUMBER_FLOAT == 11
JSONT_STRING == 12
JSONT_FIELD_NAME == 13
_JSONT_VALUES_END == 14
_JSONT_COMMA == 15

(* Error info, jsont.c *)
NO_ERRINFO == "(null)"
JSONT_ERRINFO_STACK_SIZE == "Stack size limit exceeded"
JSONT_ERRINFO_UNEXPECTED_OBJECT_END == "Unexpected end of object while not in an object"
JSONT_ERRINFO_UNEXPECTED_ARRAY_END == "Unexpected end of array while not in an array"
JSONT_ERRINFO_UNEXPECTED_COMMA == "Unexpected \",\""
JSONT_ERRINFO_UNEXPECTED_COLON == "Unexpected \":\""
JSONT_ERRINFO_UNEXPECTED == "Unexpected input"

_STRUCT_TYPE_STACK_SIZE == 512

NULL == -1
NUL == "NUL"
Digits == {"0", "1", "2", "3", "4", "5", "6", "7", "8", "9"}
isdigit(b) == b \in Digits

---------------------------------------------------------------------------
(* The context a call of jsont_next works on.  dispatch lists, for every  *)
(* turn of the loop of jsont_next, the offset and the byte read (NUL at   *)
(* the end of the buffer, where at = input_len), and curr_tok and the      *)
(* stack at that moment.                                                   *)
Ctx == [ptr |-> ptr, value_start |-> value_start, value_end |-> value_end,
        error_info |-> error_info, curr_tok |-> curr_tok,
        st_stack |-> st_stack, ret |-> ret, dispatch |-> <<>>]

_input_avail(buf, p) == Len(buf) - p

\* the byte read and the pointer afterwards
_next_byte(buf, p) ==
  IF _input_avail(buf, p) = 0 THEN [b |-> NUL, p |-> p]
                              ELSE [b |-> buf[p + 1], p |-> p + 1]

_st_stack_top(c) ==
  IF Len(c.st_stack) # 0 THEN c.st_stack[Len(c.st_stack)] ELSE JSONT_END

Pop(s) == SubSeq(s, 1, Len(s) - 1)

\* _set_tok pushing without looking at st_stack_size
_set_tok_unbounded(c, tok) ==
  LET c1 == [c EXCEPT !.curr_tok = tok, !.ret = tok]
      err(info) == [c1 EXCEPT !.error_info = info, !.curr_tok = JSONT_ERR,
                              !.ret = JSONT_ERR]
  IN  IF tok = JSONT_OBJECT_START
        THEN [c1 EXCEPT !.st_stack = Append(@, JSONT_OBJECT_START)]
      ELSE IF tok = JSONT_OBJECT_END THEN
        IF _st_stack_top(c) # JSONT_OBJECT_START
        THEN err(JSONT_ERRINFO_UNEXPECTED_OBJECT_END)
        ELSE [c1 EXCEPT !.st_stack = Pop(@)]
      ELSE IF tok = JSONT_ARRAY_START
        THEN [c1 EXCEPT !.st_stack = Append(@, JSONT_ARRAY_START)]
      ELSE IF tok = JSONT_ARRAY_END THEN
        IF _st_stack_top(c) # JSONT_ARRAY_START
        THEN err(JSONT_ERRINFO_UNEXPECTED_ARRAY_END)
        ELSE [c1 EXCEPT !.st_stack = Pop(@)]
      ELSE c1

\* _set_tok popping whatever is on top of the stack
_set_tok_any_closer(c, tok) ==
  LET c1 == [c EXCEPT !.curr_tok = tok, !.ret = tok]
      err(info) == [c1 EXCEPT !.error_info = info, !.curr_tok = JSONT_ERR,
                              !.ret = JSONT_ERR]
      full == Len(c.st_stack) = _STRUCT_TYPE_STACK_SIZE
  IN  IF tok = JSONT_OBJECT_START THEN
        IF full THEN err(JSONT_ERRINFO_STACK_SIZE)
        ELSE [c1 EXCEPT !.st_stack = Append(@, JSONT_OBJECT_START)]
      ELSE IF tok = JSONT_OBJECT_END THEN
        IF Len(c.st_stack) = 0
        THEN err(JSONT_ERRINFO_UNEXPECTED_OBJECT_END)
        ELSE [c1 EXCEPT !.st_stack = Pop(@)]
      ELSE IF tok = JSONT_ARRAY_START THEN
        IF full THEN err(JSONT_ERRINFO_STACK_SIZE)
        ELSE [c1 EXCEPT !.st_stack = Append(@, JSONT_ARRAY_START)]
      ELSE IF tok = JSONT_ARRAY_END THEN
        IF Len(c.st_stack) = 0
        THEN err(JSONT_ERRINFO_UNEXPECTED_ARRAY_END)
        ELSE [c1 EXCEPT !.st_stack = Pop(@)]
      ELSE c1

\* _set_tok dropping the top of the stack when the closer does not match it
_set_tok_error_pops(c, tok) ==
  LET c1 == [c EXCEPT !.curr_tok = tok, !.ret = tok]
      err(info) == [c1 EXCEPT !.error_info = info, !.curr_tok = JSONT_ERR,
                              !.ret = JSONT_ERR]
      full == Len(c.st_stack) = _STRUCT_TYPE_STACK_SIZE
  IN  IF tok = JSONT_END THEN c1
      ELSE IF tok = JSONT_OBJECT_START THEN
        IF full THEN err(JSONT_ERRINFO_STACK_SIZE)
        ELSE [c1 EXCEPT !.st_stack = Append(@, JSONT_OBJECT_START)]
      ELSE IF tok = JSONT_OBJECT_END THEN
        IF _st_stack_top(c) # JSONT_OBJECT_START
        THEN [err(JSONT_ERRINFO_UNEXPECTED_OBJECT_END)
                EXCEPT !.st_stack = Pop(@)]
        ELSE [c1 EXCEPT !.st_stack = Pop(@)]
      ELSE IF tok = JSONT_ARRAY_START THEN
        IF full THEN err(JSONT_ERRINFO_STACK_SIZE)
        ELSE [c1 EXCEPT !.st_stack = Append(@, JSONT_ARRAY_START)]
      ELSE IF tok = JSONT_ARRAY_END THEN
        IF _st_stack_top(c) # JSONT_ARRAY_START
        THEN [err(JSONT_ERRINFO_UNEXPECTED_ARRAY_END)
                EXCEPT !.st_stack = Pop(@)]
        ELSE [c1 EXCEPT !.st_stack = Pop(@)]
      ELSE c1

\* _set_tok returning End without storing it as the current token
_set_tok_end_not_stored(c, tok) ==
  LET c1 == [c EXCEPT !.curr_tok = tok, !.ret = tok]
      err(info) == [c1 EXCEPT !.error_info = info, !.curr_tok = JSONT_ERR,
                              !.ret = JSONT_ERR]
      full == Len(c.st_stack) = _STRUCT_TYPE_STACK_SIZE
  IN  IF tok = JSONT_END THEN [c EXCEPT !.ret = tok]
      ELSE IF tok = JSONT_OBJECT_START THEN
        IF full THEN err(JSONT_ERRINFO_STACK_SIZE)
        ELSE [c1 EXCEPT !.st_stack = Append(@, JSONT_OBJECT_START)]
      ELSE IF tok = JSONT_OBJECT_END THEN
        IF _st_stack_top(c) # JSONT_OBJECT_START
        THEN err(JSONT_ERRINFO_UNEXPECTED_OBJECT_END)
        ELSE [c1 EXCEPT !.st_stack = Pop(@)]
      ELSE IF tok = JSONT_ARRAY_START THEN
        IF full THEN err(JSONT_ERRINFO_STACK_SIZE)
        ELSE [c1 EXCEPT !.st_stack = Append(@, JSONT_ARRAY_START)]
      ELSE IF tok = JSONT_ARRAY_END THEN
        IF _st_stack_top(c) # JSONT_ARRAY_START
        THEN err(JSONT_ERRINFO_UNEXPECTED_ARRAY_END)
        ELSE [c1 EXCEPT !.st_stack = Pop(@)]
      ELSE c1

_set_tok(c, tok) ==
  LET c1 == [c EXCEPT !.curr_tok = tok, !.ret = tok]
      err(info) == [c1 EXCEPT !.error_info = info, !.curr_tok = JSONT_ERR,
                              !.ret = JSONT_ERR]
      full == Len(c.st_stack) = _STRUCT_TYPE_STACK_SIZE
  IN  IF tok = JSONT_END THEN c1
      ELSE IF tok = JSONT_OBJECT_START THEN
        IF full THEN err(JSONT_ERRINFO_STACK_SIZE)
        ELSE [c1 EXCEPT !.st_stack = Append(@, JSONT_OBJECT_START)]
      ELSE IF tok = JSONT_OBJECT_END THEN
        IF _st_stack_top(c) # JSONT_OBJECT_START
        THEN err(JSONT_ERRINFO_UNEXPECTED_OBJECT_END)
        ELSE [c1 EXCEPT !.st_stack = Pop(@)]
      ELSE IF tok = JSONT_ARRAY_START THEN
        IF full THEN err(JSONT_ERRINFO_STACK_SIZE)
        ELSE [c1 EXCEPT !.st_stack = Append(@, JSONT_ARRAY_START)]
      ELSE IF tok = JSONT_ARRAY_END THEN
        IF _st_stack_top(c) # JSONT_ARRAY_START
        THEN err(JSONT_ERRINFO_UNEXPECTED_ARRAY_END)
        ELSE [c1 EXCEPT !.st_stack = Pop(@)]
      ELSE c1

_rewind_one_byte(c) == [c EXCEPT !.ptr = @ - 1]
\* _rewind_bytes going one byte too far
_rewind_bytes_too_far(c, n) == [c EXCEPT !.ptr = @ - (n + 1)]

_rewind_bytes(c, n) == [c EXCEPT !.ptr = @ - n]
_skip_bytes(c, n) == [c EXCEPT !.ptr = @ + n]

\* _read_atom leaving the cursor behind the leading letter
_read_atom_no_rewind(buf, c, slacklen, tok) ==
  IF _input_avail(buf, c.ptr) < slacklen
  THEN _set_tok(c, JSONT_END)
  ELSE _set_tok(_skip_bytes(c, slacklen), tok)

\* _read_atom skipping one byte less than the literal has left
_read_atom_skips_less(buf, c, slacklen, tok) ==
  IF _input_avail(buf, c.ptr) < slacklen
  THEN _set_tok(_rewind_one_byte(c), JSONT_END)
  ELSE _set_tok(_skip_bytes(c, slacklen - 1), tok)

_read_atom(buf, c, slacklen, tok) ==
  IF _input_avail(buf, c.ptr) < slacklen
  THEN _set_tok(_rewind_one_byte(c), JSONT_END)
  ELSE _set_tok(_skip_bytes(c, slacklen), tok)

\* _expects_field_name looking at the current token only
_expects_field_name_first_only(c) == c.curr_tok = JSONT_OBJECT_START

_expects_field_name(c) ==
  \/ c.curr_tok = JSONT_OBJECT_START
  \/ /\ c.curr_tok = _JSONT_COMMA
     /\ _st_stack_top(c) = JSONT_OBJECT_START

\* the inner loop of case '"': c.ptr is just behind the opening quote
RECURSIVE ReadString(_, _, _)
ReadString(buf, c, prev_b) ==
  LET nb == _next_byte(buf, c.ptr)
      c1 == [c EXCEPT !.ptr = nb.p]
  IN  IF nb.b = "\"" /\ prev_b # "\\" THEN
        LET c2 == [c1 EXCEPT !.value_end = c1.ptr - 1]
        IN  _set_tok(c2, IF _expects_field_name(c2) THEN JSONT_FIELD_NAME
                                                    ELSE JSONT_STRING)
      ELSE IF nb.b = NUL THEN
        _set_tok(_rewind_bytes(c1, c1.ptr - (c1.value_start - 1)), JSONT_END)
      ELSE ReadString(buf, c1, nb.b)

\* the number loop without the rewind in front of the terminating byte
RECURSIVE ReadNumber_no_rewind(_, _, _)
ReadNumber_no_rewind(buf, c, is_float) ==
  LET nb == _next_byte(buf, c.ptr)
      c1 == [c EXCEPT !.ptr = nb.p]
  IN  IF nb.b = "." THEN ReadNumber_no_rewind(buf, c1, TRUE)
      ELSE IF ~isdigit(nb.b) THEN
        _set_tok([c1 EXCEPT !.value_end = c1.ptr - 1],
                 IF is_float THEN JSONT_NUMBER_FLOAT ELSE JSONT_NUMBER_INT)
      ELSE ReadNumber_no_rewind(buf, c1, is_float)

\* the number loop forgetting that it met a '.'
RECURSIVE ReadNumber_loses_dot(_, _, _)
ReadNumber_loses_dot(buf, c, is_float) ==
  LET nb == _next_byte(buf, c.ptr)
      c1 == [c EXCEPT !.ptr = nb.p]
  IN  IF nb.b = "." THEN ReadNumber_loses_dot(buf, c1, is_float)
      ELSE IF ~isdigit(nb.b) THEN
        LET c2 == _rewind_one_byte(c1)
            c3 == [c2 EXCEPT !.value_end = c2.ptr]
        IN  _set_tok(c3, IF is_float THEN JSONT_NUMBER_FLOAT
                                     ELSE JSONT_NUMBER_INT)
      ELSE ReadNumber_loses_dot(buf, c1, is_float)

\* the inner loop of the default case: c.ptr is just behind the first byte
RECURSIVE ReadNumber(_, _, _)
ReadNumber(buf, c, is_float) ==
  LET nb == _next_byte(buf, c.ptr)
      c1 == [c EXCEPT !.ptr = nb.p]
  IN  IF nb.b = "." THEN ReadNumber(buf, c1, TRUE)
      ELSE IF ~isdigit(nb.b) THEN
        LET c2 == _rewind_one_byte(c1)
            c3 == [c2 EXCEPT !.value_end = c2.ptr]
        IN  _set_tok(c3, IF is_float THEN JSONT_NUMBER_FLOAT
                                     ELSE JSONT_NUMBER_INT)
      ELSE IF nb.b = NUL THEN
        _set_tok(_rewind_bytes(c1, c1.ptr - (c1.value_start - 1)), JSONT_END)
      ELSE ReadNumber(buf, c1, is_float)

\* the condition of case ',': the tokens a comma must not follow
CommaRejected(tok) ==
  \/ tok = JSONT_OBJECT_START
  \/ tok = JSONT_ARRAY_START
  \/ tok = JSONT_END
  \/ tok = JSONT_ERR

\* the condition of case ':' letting a colon follow a string as well
ColonRejected_after_string(tok) ==
  tok # JSONT_FIELD_NAME /\ tok # JSONT_STRING

\* the condition of case ':'
ColonRejected(tok) == tok # JSONT_FIELD_NAME

\* a rejected ',' that names no error
CommaError_silent(c) == c

CommaError_always(c) ==
  [c EXCEPT !.error_info = JSONT_ERRINFO_UNEXPECTED_COMMA]

\* a rejected ',' names itself as the error unless an error is current
CommaError(c) ==
  IF c.curr_tok # JSONT_ERR
  THEN [c EXCEPT !.error_info = JSONT_ERRINFO_UNEXPECTED_COMMA]
  ELSE c

RECURSIVE jsont_next(_, _)
jsont_next(buf, c0) ==
  LET nb == _next_byte(buf, c0.ptr)
      b == nb.b
      c == [c0 EXCEPT !.ptr = nb.p,
                      !.dispatch = Append(@, [at |-> c0.ptr, b |-> b,
                                              tok |-> c0.curr_tok,
                                              stack |-> c0.st_stack,
                                              info |-> c0.error_info,
                                              vstart |-> c0.value_start,
                                              vend |-> c0.value_end])]
  IN  CASE b = "{" -> _set_tok(c, JSONT_OBJECT_START)
        [] b = "}" -> _set_tok(c, JSONT_OBJECT_END)
        [] b = "[" -> _set_tok(c, JSONT_ARRAY_START)
        [] b = "]" -> _set_tok(c, JSONT_ARRAY_END)
        [] b = "n" -> _read_atom(buf, c, 3, JSONT_NULL)
        [] b = "t" -> _read_atom(buf, c, 3, JSONT_TRUE)
        [] b = "f" -> _read_atom(buf, c, 4, JSONT_FALSE)
        [] b = "\"" ->
             ReadString(buf, [c EXCEPT !.value_start = c.ptr], NUL)
        [] b = "," ->
             IF CommaRejected(c.curr_tok)
             THEN _set_tok(CommaError(c), JSONT_ERR)
             ELSE jsont_next(buf, _set_tok(c, _JSONT_COMMA))
        [] b = ":" ->
             IF ColonRejected(c.curr_tok)
             THEN _set_tok([c EXCEPT !.error_info =
                                       JSONT_ERRINFO_UNEXPECTED_COLON],
                           JSONT_ERR)
             ELSE jsont_next(buf, c)
        [] b \in {" ", "\r", "\n", "\t"} -> jsont_next(buf, c)
        [] b = NUL -> _set_tok(c, JSONT_END)
        [] OTHER ->
             IF isdigit(b) \/ b = "+" \/ b = "-"
             THEN ReadNumber(buf, [c EXCEPT !.value_start = c.ptr - 1], FALSE)
             ELSE _set_tok([c EXCEPT !.error_info = JSONT_ERRINFO_UNEXPECTED],
                           JSONT_ERR)

---------------------------------------------------------------------------
(* The input buffers of the model. *)
MaxLen == 3     \* longest buffer made of arbitrary bytes
MaxTail == 2    \* longest run of arbitrary bytes behind a prefix
MaxHist == 16   \* number of returned tokens the history keeps

Alphabet == {"{", "}", "[", "]", "n", "t", "f", "\"", ",", ":", " ",
             "1", "-", ".", "\\", NUL, "x"}

SeqsUpTo(n) == UNION {[1..k -> Alphabet] : k \in 0..n}

ExampleDoc ==
  <<"{", "\"", "n", "\"", ":", "4", "2", ",", "\"", "f", "\"", ":", "3", ".", "5", ",", "\"", "t", "\"", ":", "t", "r", "u", "e", ",", "\"", "a", "\"", ":", "[", "1", ",", "2", "]", "}">>

DocObjectAB == <<"{", "\"", "a", "\"", ":", "1", ",", "\"", "b", "\"", ":", "2", "}">>
DocArrayAB == <<"[", "\"", "a", "\"", ",", "\"", "b", "\"", "]">>
DocStringField == <<"{", "\"", "a", "\"", ":", "\"", "b", "\"", "}">>
DocNestedArray == <<"{", "\"", "a", "\"", ":", "[", "1", ",", "\"", "b", "\"", "]", "}">>

Docs == {
  ExampleDoc, DocObjectAB, DocArrayAB, DocStringField, DocNestedArray,
  <<"[", "1", ",", ",", "2", "]">>,
  <<"{", "\"", "a", "\"", ":", "[", "1", "]", ",", "\"", "b", "\"", ":", "[", "{", "\"", "c", "\"", ":", "2", "}", "]", "}">>,
  <<"n", "u">>,
  <<"t", "r">>,
  <<"f", "a", "l", "s">>,
  <<"\"", "a", "b", "c">>,
  <<"-", "1", "2">>,
  <<"3", ".", "5">>,
  <<"f", "a", "l", "s", "e">>,
  <<"n", "u", "l", "l", " ">>,
  <<"t", "r", "u", "e", "]">>,
  <<"[", "f", "a", "l", "s", "e", ",", "n", "u", "l", "l", "]">>,
  <<"[", "1", ",", "\"", "a", "\"", ",", "]">>,
  <<"{", ",", "}">>,
  <<"[", "1", " ", ",", " ", "2", "]">>,
  <<"{", "\"", "a", "\"", " ", ":", " ", "1", "}">>,
  <<"[", "\"", "a", "\\", "\"", "b", "\"", "]">>,
  <<"[", "\"", "a", "\\", "\\", "\"", "]">>,
  <<"[", "+", "1", ",", "-", "2", ".", "5", "]">>,
  <<"{", "\"", "a", "\"", ":", "1", ":", "2", "}">>,
  <<"[", "[", "]", ",", "{", "}", "]">>,
  <<"n", "x", "x", "x">>,
  <<"[", "t", "1", ",", "]">>,
  <<"{", "f", "}", "}", "}", "}">> }

Prefixes == {
  <<>>,
  <<"[", "1">>,
  <<"{", "\"", "a", "\"">>,
  <<"{", "\"", "a", "\"", ":", "1">>,
  <<"{", "\"", "a", "\"", ":", "[", "1">>,
  <<"[", "\"", "a", "\"">>,
  <<"{", "\"", "a", "\"", ":", "{">> }

Inputs ==
  SeqsUpTo(MaxLen) \cup Docs \cup {p \o t : p \in Prefixes, t \in SeqsUpTo(MaxTail)}

\* buffers handed to jsont_reset on a context that is in use
ResetInputs == {<<>>, <<"[", "1">>, <<"{", "}">>, <<",">>}

---------------------------------------------------------------------------
\* jsont_data_value on a context: the bytes of the current value
_no_value_only_unset(c) == c.value_start = NULL

_no_value(c) ==
  \/ c.value_start = NULL
  \/ c.curr_tok < _JSONT_VALUES_START
  \/ c.curr_tok > _JSONT_VALUES_END

jsont_data_value(buf, c) ==
  IF _no_value(c) THEN <<>>
  ELSE SubSeq(buf, c.value_start + 1, c.value_end)

jsont_data_length(c) ==
  IF _no_value(c) THEN 0 ELSE c.value_end - c.value_start

\* the malloc'ed, NUL-terminated copy of the slice, NULL when there is none
jsont_strcpy_value(buf, c) ==
  IF _no_value(c) THEN NULL
  ELSE LET len == c.value_end - c.value_start
       IN  Append(SubSeq(buf, c.value_start + 1, c.value_start + len), NUL)

jsont_current == curr_tok
jsont_current_offset == ptr
jsont_error_info == error_info

IsOpen(tok) == tok \in {JSONT_OBJECT_START, JSONT_ARRAY_START}
IsClose(tok) == tok \in {JSONT_OBJECT_END, JSONT_ARRAY_END}

\* jsont_create followed by jsont_reset(ctx, buf, Len(buf))
Created(buf) ==
  /\ input = buf
  /\ ptr = 0
  /\ st_stack = <<>>
  /\ curr_tok = JSONT_END
  /\ value_start = NULL
  /\ value_end = NULL
  /\ error_info = NO_ERRINFO
  /\ ret = NULL /\ dispatch = <<>>
  /\ history = <<>> /\ opens = 0 /\ closes = 0
  /\ reset_from = <<>>

\* Builder(): a builder of the given kind, and the calls to come
Built(kind, script) ==
  /\ b_buf = <<>> /\ b_alloc = FALSE /\ b_capacity = 0
  /\ b_state = "NeutralState" /\ b_grown = <<>> /\ b_steps = <<>>
  /\ seized = <<>>
  /\ b_kind = kind /\ b_prev = <<>> /\ b_seq = <<>> /\ calls = script

Idle ==
  /\ errno = "0" /\ int_call = <<>>
  /\ Built("hh", <<>>)
  /\ driver = "run"

Init == (\E buf \in Inputs : Created(buf)) /\ Idle

\* a reset that leaves the current token in place
Reset_keeps_token ==
  /\ \E buf \in ResetInputs :
       /\ input' = buf
       /\ ptr' = 0
       /\ st_stack' = <<>>
       /\ curr_tok' = curr_tok
       /\ value_start' = NULL
       /\ value_end' = NULL
       /\ error_info' = NO_ERRINFO
  /\ ret' = NULL /\ dispatch' = <<>>
  /\ history' = <<>> /\ opens' = 0 /\ closes' = 0
  /\ reset_from' = <<[tok |-> curr_tok, depth |-> Len(st_stack),
                      info |-> error_info, value |-> ~_no_value(Ctx)]>>
  /\ int_call' = <<>>
  /\ UNCHANGED <<errno, builder, driver>>

\* jsont_reset(ctx, buf, Len(buf))
Reset ==
  /\ \E buf \in ResetInputs :
       /\ input' = buf
       /\ ptr' = 0
       /\ st_stack' = <<>>
       /\ curr_tok' = JSONT_END
       /\ value_start' = NULL
       /\ value_end' = NULL
       /\ error_info' = NO_ERRINFO
  /\ ret' = NULL /\ dispatch' = <<>>
  /\ history' = <<>> /\ opens' = 0 /\ closes' = 0
  /\ reset_from' = <<[tok |-> curr_tok, depth |-> Len(st_stack),
                      info |-> error_info, value |-> ~_no_value(Ctx)]>>
  /\ int_call' = <<>>
  /\ UNCHANGED <<errno, builder, driver>>

\* the context after jsont_next(ctx)
Store(c) ==
  /\ ptr' = c.ptr
  /\ value_start' = c.value_start
  /\ value_end' = c.value_end
  /\ error_info' = c.error_info
  /\ curr_tok' = c.curr_tok
  /\ st_stack' = c.st_stack
  /\ ret' = c.ret
  /\ dispatch' = c.dispatch
  /\ history' = IF Len(history) < MaxHist
                THEN Append(history, [tok |-> c.ret,
                                      val |-> jsont_data_value(input, c)])
                ELSE history
  /\ opens' = IF IsOpen(c.ret) THEN opens + 1 ELSE opens
  /\ closes' = IF IsClose(c.ret) THEN closes + 1 ELSE closes
  /\ UNCHANGED <<input, reset_from>>

\* tok = jsont_next(ctx)
Advance ==
  /\ Store(jsont_next(input, Ctx))
  /\ int_call' = <<>>
  /\ UNCHANGED <<errno, builder, driver>>

Next == Advance \/ Reset

Spec == Init /\ [][Next]_vars

---------------------------------------------------------------------------
(* jsont_int_value.  int64_t and uint64_t are IntBits wide in the model.   *)
IntBits == 8

LLONG_MAX == 2^(IntBits - 1) - 1
LLONG_MIN == -(2^(IntBits - 1))
INT64_MIN == LLONG_MIN
INT64_MAX == LLONG_MAX
UInt(n) == n % 2^IntBits                                  \* (uint64_t)n
SInt(n) == IF UInt(n) > LLONG_MAX THEN UInt(n) - 2^IntBits
                                  ELSE UInt(n)            \* (int64_t)n

DigitChars == <<"0", "1", "2", "3", "4", "5", "6", "7", "8", "9">>
DigitValue(b) == (CHOOSE d \in 1..10 : DigitChars[d] = b) - 1   \* b - '0'

\* *p for a pointer at offset i; oob is what a read outside the buffer gives
ByteAt(buf, i, oob) == IF i < Len(buf) THEN buf[i + 1] ELSE oob

\* the overflow test of the loop without the comparison of acc and cutoff
Overflows_no_cutoff(any, acc, b, cutoff, cutlim) ==
  any < 0 \/ (acc = cutoff /\ b > cutlim)

\* the overflow test of the loop
Overflows(any, acc, b, cutoff, cutlim) ==
  any < 0 \/ acc > cutoff \/ (acc = cutoff /\ b > cutlim)

\* the for loop: start is the offset behind the byte b
RECURSIVE IntLoop(_, _, _, _, _, _, _, _, _)
IntLoop(buf, start, end, b, acc, any, cutoff, cutlim, oob) ==
  IF start = end \/ ~(b \in Digits) THEN [acc |-> acc, any |-> any,
                                          start |-> start, ub |-> FALSE]
  ELSE IF start > Len(buf) + 1 THEN [acc |-> acc, any |-> any,
                                     start |-> start, ub |-> TRUE]
  ELSE LET d == DigitValue(b)
           over == Overflows(any, acc, d, cutoff, cutlim)
       IN  IntLoop(buf, start + 1, end, ByteAt(buf, start, oob),
                   IF over THEN acc ELSE UInt(UInt(acc * 10) + d),
                   IF over THEN -1 ELSE 1,
                   cutoff, cutlim, oob)

\* what jsont_int_value returns, the errno it sets ("" when it sets none),
\* the highest offset it reads at, and whether it ran past the buffer
jsont_int_value(buf, c, oob) ==
  IF _no_value(c)
  THEN [result |-> INT64_MIN, errno |-> "", reads |-> NULL, ub |-> FALSE]
  ELSE
    LET start0 == c.value_start
        end == c.value_end + 1
        b0 == ByteAt(buf, start0, oob)
        negative == b0 = "-"
        signed == b0 = "-" \/ b0 = "+"
        b1 == IF signed THEN ByteAt(buf, start0 + 1, oob) ELSE b0
        start1 == IF signed THEN start0 + 2 ELSE start0 + 1
        cutoff0 == IF negative THEN UInt(-(LLONG_MIN + LLONG_MAX)) + LLONG_MAX
                               ELSE LLONG_MAX
        cutlim == cutoff0 % 10
        cutoff == cutoff0 \div 10
        l == IntLoop(buf, start1, end, b1, 0, 0, cutoff, cutlim, oob)
        out(r, e) == [result |-> r, errno |-> e, reads |-> l.start - 1,
                      ub |-> l.ub]
    IN  IF signed /\ start1 = end
          THEN [result |-> INT64_MIN, errno |-> "EINVAL",
                reads |-> start1 - 1, ub |-> FALSE]
        ELSE IF l.any < 0
          THEN out(SInt(IF negative THEN LLONG_MIN ELSE LLONG_MAX), "ERANGE")
        ELSE IF l.any = 0
          THEN out(INT64_MIN, "EINVAL")
        ELSE IF negative
          THEN out(SInt(-l.acc), "")
        ELSE out(SInt(l.acc), "")

\* a byte outside the buffer may hold anything
OutOfBounds == {NUL, "7"}

\* v = jsont_int_value(ctx)
IntValue ==
  /\ int_call = <<>>
  /\ \E oob \in OutOfBounds :
       LET r == jsont_int_value(input, Ctx, oob)
       IN  IF r.ub
           THEN /\ \E v \in {INT64_MIN, 0, INT64_MAX} :
                     int_call' = <<[r EXCEPT !.result = v]>>
                /\ errno' \in {errno, "EINVAL", "ERANGE"}
           ELSE /\ int_call' = <<r>>
                /\ errno' = IF r.errno = "" THEN errno ELSE r.errno
  /\ UNCHANGED <<scanner, ghost, builder, driver>>

\* decimal digits of n >= 0
RECURSIVE Dec(_)
Dec(n) == IF n < 10 THEN <<DigitChars[n + 1]>>
          ELSE Dec(n \div 10) \o <<DigitChars[(n % 10) + 1]>>

(* Buffers holding one number. *)
MaxBeyond == 12   \* how far the numbers go to either side of 2^(IntBits-1)

Magnitudes ==
  0..3 \cup ((2^(IntBits - 1) - MaxBeyond)..(2^(IntBits - 1) + MaxBeyond))
       \cup {10 * 2^(IntBits - 1), 100 * 2^(IntBits - 1) + 9}

NumberTexts ==
  {s \o Dec(n) : s \in {<<>>, <<"+">>, <<"-">>, <<"0">>, <<"-", "0", "0">>},
                 n \in Magnitudes}

IntInputs ==
  {<<"[">> \o t \o <<"]">> : t \in NumberTexts}
  \cup {<<"[", "\"">> \o t \o <<"\"", "]">> : t \in NumberTexts}
  \cup {<<"1", "2">>, <<"-">>, <<"[", "+", "]">>, <<"[", "\"", "\"", "]">>,
        <<"[", "\"", "x", "1", "\"", "]">>, <<"[", "1", ".", "5", "]">>,
        <<"[", "-", "-", "1", "]">>, <<"[", "1", "-">>}

InitInt == (\E buf \in IntInputs : Created(buf)) /\ Idle

NextInt == Advance \/ IntValue

SpecInt == InitInt /\ [][NextInt]_vars

---------------------------------------------------------------------------
(* jsont_float_value.  A double is NaN or sign * mant * 10^exp; the model   *)
(* keeps the decimal digits atof reads, which is exact for the short        *)
(* numbers of the model's buffers.                                          *)
NaN == [nan |-> TRUE, neg |-> FALSE, mant |-> 0, exp |-> 0]
Double(neg, mant, exp) == [nan |-> FALSE, neg |-> neg, mant |-> mant, exp |-> exp]

\* *p for the C string atof reads: one byte may lie outside the buffer, the
\* byte behind it ends the string
CharAt(buf, i, oob) ==
  IF i < Len(buf) THEN buf[i + 1] ELSE IF i = Len(buf) THEN oob ELSE NUL

\* the run of digits at offset i: its value, its length
RECURSIVE DigitRun(_, _, _, _, _)
DigitRun(buf, i, oob, val, n) ==
  IF CharAt(buf, i, oob) \in Digits
  THEN DigitRun(buf, i + 1, oob,
                val * 10 + DigitValue(CharAt(buf, i, oob)), n + 1)
  ELSE [val |-> val, n |-> n]

RECURSIVE SkipSpace(_, _, _)
SkipSpace(buf, i, oob) ==
  IF CharAt(buf, i, oob) \in {" ", "\t", "\n", "\r"}
  THEN SkipSpace(buf, i + 1, oob) ELSE i

\* atof((const char*)(buf + from)): decimal numbers with fraction and exponent
atof(buf, from, oob) ==
  LET i0 == SkipSpace(buf, from, oob)
      sign == CharAt(buf, i0, oob)
      neg == sign = "-"
      i1 == IF sign \in {"+", "-"} THEN i0 + 1 ELSE i0
      ip == DigitRun(buf, i1, oob, 0, 0)
      i2 == i1 + ip.n
      dot == CharAt(buf, i2, oob) = "."
      fp == IF dot THEN DigitRun(buf, i2 + 1, oob, ip.val, 0)
                   ELSE [val |-> ip.val, n |-> 0]
      i3 == IF dot THEN i2 + 1 + fp.n ELSE i2
      e == CharAt(buf, i3, oob) \in {"e", "E"}
      esign == CharAt(buf, i3 + 1, oob)
      i4 == IF esign \in {"+", "-"} THEN i3 + 2 ELSE i3 + 1
      ep == IF e THEN DigitRun(buf, i4, oob, 0, 0) ELSE [val |-> 0, n |-> 0]
      ex == IF esign = "-" THEN -ep.val ELSE ep.val
  IN  IF ip.n + fp.n = 0 THEN Double(FALSE, 0, 0)
      ELSE Double(neg, fp.val, ex - fp.n)

jsont_float_value(buf, c, oob) ==
  IF _no_value(c) \/ _input_avail(buf, c.ptr) = 0
  THEN [result |-> NaN, errno |-> "EINVAL"]
  ELSE [result |-> atof(buf, c.value_start, oob), errno |-> ""]

---------------------------------------------------------------------------
(* The Builder of jsont.hh.  A builder is its buffer up to _size, whether   *)
(* _buf is allocated, _capacity and _state; grown lists the reallocations   *)
(* of the call under way and steps its calls of reserve and its writes   *)
(* into the buffer.  The Builder of jsont.h has the same members and  *)
(* the same methods but for value(bool), nullValue and reset, which it      *)
(* lacks, and seizeBytes; its states ObjectStart and ArrayStart go by the   *)
(* names of jsont.hh here.                                                  *)
Bld == [buf |-> b_buf, alloc |-> b_alloc, capacity |-> b_capacity,
        state |-> b_state, grown |-> <<>>, steps |-> <<>>]

size(b) == Len(b.buf)
available(b) == b.capacity - size(b)

\* a call reserve(n), and a write of n bytes at _buf + at in a buffer of
\* capacity bytes
Reserved(n) == [op |-> "reserve", n |-> n, at |-> 0, capacity |-> 0]
Written(at, n, cap) == [op |-> "write", n |-> n, at |-> at, capacity |-> cap]

\* growth by half of what is asked for, without the floor of 64
reserve_no_floor(b, n) ==
  IF available(b) < n
  THEN LET cap == b.capacity + n - available(b)
           to == (cap * 3) \div 2
       IN  [b EXCEPT !.capacity = to,
                     !.alloc = TRUE,
                     !.grown = Append(@, [capacity |-> b.capacity,
                                          available |-> available(b),
                                          requested |-> n, to |-> to]),
                     !.steps = Append(@, Reserved(n))]
  ELSE [b EXCEPT !.steps = Append(@, Reserved(n))]

\* growth by half of the capacity, whatever is asked for
reserve_by_half(b, n) ==
  IF available(b) < n
  THEN LET to == IF b.capacity < 64 THEN 64 ELSE (b.capacity * 3) \div 2
       IN  [b EXCEPT !.capacity = to,
                     !.alloc = TRUE,
                     !.grown = Append(@, [capacity |-> b.capacity,
                                          available |-> available(b),
                                          requested |-> n, to |-> to]),
                     !.steps = Append(@, Reserved(n))]
  ELSE [b EXCEPT !.steps = Append(@, Reserved(n))]

reserve(b, n) ==
  IF available(b) < n
  THEN LET cap == b.capacity + n - available(b)
           to == IF cap < 64 THEN 64 ELSE (cap * 3) \div 2
       IN  [b EXCEPT !.capacity = to,
                     !.alloc = TRUE,
                     !.grown = Append(@, [capacity |-> b.capacity,
                                          available |-> available(b),
                                          requested |-> n, to |-> to]),
                     !.steps = Append(@, Reserved(n))]
  ELSE [b EXCEPT !.steps = Append(@, Reserved(n))]

\* what follows reserve: the bytes written at _buf + _size
Write(b, bytes) ==
  [b EXCEPT !.buf = @ \o bytes,
            !.steps = Append(@, Written(size(b), Len(bytes), b.capacity))]

\* z = snprintf(_buf + _size, n, ..); assert(z < n); _size += z: the text
\* and a terminating NUL are written, the text is counted
snprintf(b, n, text) ==
  [b EXCEPT !.buf = @ \o text,
            !.steps = Append(@, Written(size(b), Len(text) + 1, b.capacity))]

appendChar(b, byte) == Write(reserve(b, 1), <<byte>>)

\* a separator in front of everything but the first thing of the output
prefix_after_open(b) ==
  IF b.state = "AfterFieldName" THEN appendChar(b, ":")
  ELSE IF b.state # "NeutralState" THEN appendChar(b, ",")
  ELSE b

prefix(b) ==
  IF b.state = "AfterFieldName" THEN appendChar(b, ":")
  ELSE IF b.state = "AfterValue" THEN appendChar(b, ",")
  ELSE b

SetState(b, st) == [b EXCEPT !.state = st]

\* Builder::string of jsont.h: the quoted bytes, in room reserved for them
\* and the two quotes
string(b, v) == Write(reserve(b, Len(v) + 2), <<"\"">> \o v \o <<"\"">>)

\* Builder::appendString of jsont.hh
appendString(b, v) == string(b, v)

startObject(b) == appendChar(SetState(prefix(b), "AfterObjectStart"), "{")
\* a closer that puts a separator in front of itself
endObject_prefixed(b) == appendChar(SetState(prefix(b), "AfterValue"), "}")

endObject(b) == appendChar(SetState(b, "AfterValue"), "}")
startArray(b) == appendChar(SetState(prefix(b), "AfterArrayStart"), "[")
endArray(b) == appendChar(SetState(b, "AfterValue"), "]")
fieldName(b, v) == appendString(SetState(prefix(b), "AfterFieldName"), v)
value_string(b, v) == appendString(SetState(prefix(b), "AfterValue"), v)

\* snprintf(.., "%lld", v)
Format_lld(v) == IF v < 0 THEN <<"-">> \o Dec(-v) ELSE Dec(v)

RECURSIVE StripZeros(_, _)
StripZeros(mant, exp) ==
  IF mant # 0 /\ mant % 10 = 0 THEN StripZeros(mant \div 10, exp + 1)
  ELSE [mant |-> mant, exp |-> exp]

Zeros(n) == [i \in 1..n |-> "0"]

\* snprintf(.., "%g", v) for a v of at most 6 significant digits: fixed
\* notation when the decimal exponent is in -4 .. 5, else d.ddde+XX
Format_g(v) ==
  IF v.nan THEN <<"n", "a", "n">>
  ELSE
    LET z == StripZeros(v.mant, v.exp)
        digits == Dec(z.mant)
        n == Len(digits)
        x == n - 1 + z.exp
        sign == IF v.neg THEN <<"-">> ELSE <<>>
        frac(ds) == IF ds = <<>> THEN <<>> ELSE <<".">> \o ds
        ax == IF x < 0 THEN -x ELSE x
    IN  IF z.mant = 0 THEN sign \o <<"0">>
        ELSE IF x < -4 \/ x >= 6
          THEN sign \o <<digits[1]>> \o frac(Tail(digits))
               \o <<"e", IF x < 0 THEN "-" ELSE "+">>
               \o (IF ax < 10 THEN <<"0">> ELSE <<>>) \o Dec(ax)
        ELSE IF z.exp >= 0 THEN sign \o digits \o Zeros(z.exp)
        ELSE IF x >= 0
          THEN sign \o SubSeq(digits, 1, x + 1)
               \o frac(SubSeq(digits, x + 2, n))
        ELSE sign \o <<"0", ".">> \o Zeros(-x - 1) \o digits

value_int64(b, v) ==
  SetState(snprintf(reserve(prefix(b), 21), 21, Format_lld(v)), "AfterValue")

value_double(b, v) ==
  SetState(snprintf(reserve(prefix(b), 256), 256, Format_g(v)), "AfterValue")

value_bool(b, v) ==
  SetState(IF v THEN Write(reserve(prefix(b), 4), <<"t", "r", "u", "e">>)
                ELSE Write(reserve(prefix(b), 5), <<"f", "a", "l", "s", "e">>),
           "AfterValue")

nullValue(b) ==
  SetState(Write(reserve(prefix(b), 4), <<"n", "u", "l", "l">>), "AfterValue")

\* Builder::reset of jsont.hh
reset(b) == [b EXCEPT !.buf = <<>>, !.state = "NeutralState"]

\* what Builder::seizeBytes of jsont.hh leaves in the builder
seizeBytes(b) == reset([b EXCEPT !.alloc = FALSE, !.capacity = 0])

\* what Builder::seizeBytes of jsont.h leaves in the builder
seizeBytes_h(b) == [b EXCEPT !.alloc = FALSE, !.buf = <<>>, !.capacity = 0]

StoreBuilder(b) ==
  /\ b_buf' = b.buf
  /\ b_alloc' = b.alloc
  /\ b_capacity' = b.capacity
  /\ b_state' = b.state
  /\ b_grown' = b.grown
  /\ b_steps' = b.steps

---------------------------------------------------------------------------
(* A program building output: the calls it makes on one builder, in order. *)
MaxCalls == 3     \* longest sequence of arbitrary calls

Call(op) ==
  [op |-> op, s |-> <<>>, i |-> 0, d |-> Double(FALSE, 0, 0), t |-> FALSE]
FieldNameOf(v) == [Call("fieldName") EXCEPT !.s = v]
StringOf(v) == [Call("value_string") EXCEPT !.s = v]
IntOf(v) == [Call("value_int64") EXCEPT !.i = v]
DoubleOf(v) == [Call("value_double") EXCEPT !.d = v]
BoolOf(v) == [Call("value_bool") EXCEPT !.t = v]

Methods ==
  {Call("startObject"), Call("endObject"), Call("startArray"),
   Call("endArray"), FieldNameOf(<<"x">>), StringOf(<<"x">>), IntOf(1),
   DoubleOf(Double(FALSE, 15, -1)), BoolOf(TRUE), Call("nullValue"),
   Call("seizeBytes"), Call("reset")}

\* the methods a Builder of the kind has
HasMethod(kind, c) ==
  kind = "hh" \/ c.op \notin {"value_bool", "nullValue", "reset"}

ExampleCalls ==
  <<Call("startObject"), FieldNameOf(<<"x">>), IntOf(1),
    FieldNameOf(<<"y">>), BoolOf(FALSE), Call("endObject")>>

NestedCalls ==
  <<Call("startArray"), Call("startObject"), FieldNameOf(<<"x">>),
    Call("startArray"), Call("endArray"), FieldNameOf(<<>>), IntOf(-12),
    Call("endObject"), StringOf(<<>>), Call("nullValue"),
    DoubleOf(Double(TRUE, 25, -1)), Call("endArray")>>

FieldCalls ==
  <<Call("startObject"), FieldNameOf(<<"x">>), StringOf(<<"y">>),
    FieldNameOf(<<"y">>), Call("startObject"), Call("endObject"),
    Call("endObject"), Call("seizeBytes"), Call("startArray"),
    Call("endArray")>>

LongCalls ==
  {<<StringOf(Zeros(70))>>,
   <<StringOf(Zeros(48))>>,
   <<Call("startArray"), StringOf(Zeros(61)), IntOf(1),
     DoubleOf(Double(FALSE, 15, -1)), Call("seizeBytes"), IntOf(1)>>,
   <<Call("startArray"), Call("reset"), StringOf(Zeros(70))>>}

OddCalls ==
  {<<DoubleOf(NaN)>>, <<StringOf(<<"\"">>)>>, <<StringOf(<<"\\">>)>>}

CallSeqs ==
  UNION {[1..n -> Methods] : n \in 0..MaxCalls}
    \cup {ExampleCalls, NestedCalls, FieldCalls} \cup LongCalls \cup OddCalls

\* the next call to make is a call of op
Calling(op) == calls # <<>> /\ Head(calls).op = op

\* the call made, b is the builder after it
Made(b) ==
  /\ StoreBuilder(b)
  /\ b_prev' = <<Bld>>
  /\ b_seq' = Append(b_seq, Head(calls))
  /\ calls' = Tail(calls)
  /\ UNCHANGED <<b_kind, scanner, ghost, accessor, driver>>

StartObject ==
  Calling("startObject") /\ Made(startObject(Bld)) /\ UNCHANGED seized

EndObject ==
  Calling("endObject") /\ Made(endObject(Bld)) /\ UNCHANGED seized

StartArray ==
  Calling("startArray") /\ Made(startArray(Bld)) /\ UNCHANGED seized

EndArray ==
  Calling("endArray") /\ Made(endArray(Bld)) /\ UNCHANGED seized

FieldName ==
  /\ Calling("fieldName")
  /\ Made(fieldName(Bld, Head(calls).s))
  /\ UNCHANGED seized

ValueString ==
  /\ Calling("value_string")
  /\ Made(value_string(Bld, Head(calls).s))
  /\ UNCHANGED seized

ValueInt64 ==
  /\ Calling("value_int64")
  /\ Made(value_int64(Bld, Head(calls).i))
  /\ UNCHANGED seized

ValueDouble ==
  /\ Calling("value_double")
  /\ Made(value_double(Bld, Head(calls).d))
  /\ UNCHANGED seized

ValueBool ==
  /\ Calling("value_bool")
  /\ Made(value_bool(Bld, Head(calls).t))
  /\ UNCHANGED seized

NullValue ==
  Calling("nullValue") /\ Made(nullValue(Bld)) /\ UNCHANGED seized

\* buf = seizeBytes(size_out)
SeizeBytes ==
  /\ Calling("seizeBytes")
  /\ seized' = <<[buf |-> b_buf, size_out |-> size(Bld), alloc |-> b_alloc]>>
  /\ Made(IF b_kind = "hh" THEN seizeBytes(Bld) ELSE seizeBytes_h(Bld))

ResetBuilder ==
  Calling("reset") /\ Made(reset(Bld)) /\ UNCHANGED seized

InitBuilder ==
  /\ Created(<<>>)
  /\ errno = "0" /\ int_call = <<>> /\ driver = "run"
  /\ \E kind \in {"hh", "h"} :
       \E script \in CallSeqs :
         /\ \A j \in DOMAIN script : HasMethod(kind, script[j])
         /\ Built(kind, script)

NextBuilder ==
  \/ StartObject \/ EndObject \/ StartArray \/ EndArray
  \/ FieldName \/ ValueString \/ ValueInt64 \/ ValueDouble
  \/ ValueBool \/ NullValue \/ SeizeBytes \/ ResetBuilder

SpecBuilder == InitBuilder /\ [][NextBuilder]_vars

---------------------------------------------------------------------------
(* Decoding a document token by token and re-encoding it: every token is   *)
(* handed straight to the builder until jsont_next returns End or Error.   *)
ValidDocs == {
  ExampleDoc,
  <<"{", "}">>,
  <<"[", "]">>,
  <<"[", "1", ",", "2", "]">>,
  <<"{", "\"", "a", "\"", ":", "1", "}">>,
  <<"{", "\"", "a", "\"", ":", "[", "t", "r", "u", "e", ",", "f", "a", "l", "s", "e", ",", "n", "u", "l", "l", "]", "}">>,
  <<"{", "\"", "a", "\"", ":", "{", "\"", "b", "\"", ":", "\"", "c", "\"", "}", "}">>,
  <<"[", "1", ".", "5", ",", "-", "2", "]">>,
  <<"[", "0", ".", "2", "5", "]">>,
  <<"[", "\"", "x", "\"", ",", "\"", "\"", "]">>,
  <<"t", "r", "u", "e">>,
  <<"n", "u", "l", "l">>,
  <<"\"", "a", "b", "c", "\"">>,
  <<"4", "2">>,
  <<"-", "7">>,
  <<"3", ".", "5">>,
  <<"[", "1", "e", "5", "]">>,
  <<"[", "2", ".", "5", "E", "-", "3", "]">>,
  <<"[", "\"", "a", "\\", "\"", "b", "\"", "]">>,
  <<"[", "\"", "a", "\\", "\\", "\"", "]">>,
  <<"\"", "\\", "\\", "\"">>,
  <<"[", " ", "1", " ", ",", " ", "2", " ", "]">>,
  <<"{", "\"", "a", "\"", " ", ":", " ", "\"", "b", " ", "c", "\"", "}">>,
  <<"[", "[", "]", ",", "[", "{", "}", "]", "]">>,
  <<"{", "\"", "k", "\"", ":", "-", "0", ".", "5", ",", "\"", "n", "\"", ":", "n", "u", "l", "l", "}">>,
  <<"[", "1", "0", ",", "2", "0", "0", "]">>,
  <<"[", "1", ".", "5", "0", "]">>,
  <<"{", "\"", "a", "\"", ":", "\"", "b", "\"", "}">>,
  <<"[", "\"", "a", "\"", ",", "\"", "b", "\"", "]">> }

\* the builder after the call the token c.ret maps to
Forward(b, c, i, f) ==
  CASE c.ret = JSONT_OBJECT_START -> startObject(b)
    [] c.ret = JSONT_OBJECT_END -> endObject(b)
    [] c.ret = JSONT_ARRAY_START -> startArray(b)
    [] c.ret = JSONT_ARRAY_END -> endArray(b)
    [] c.ret = JSONT_FIELD_NAME -> fieldName(b, jsont_data_value(input, c))
    [] c.ret = JSONT_STRING -> value_string(b, jsont_data_value(input, c))
    [] c.ret = JSONT_NUMBER_INT -> value_int64(b, i)
    [] c.ret = JSONT_NUMBER_FLOAT -> value_double(b, f)
    [] c.ret = JSONT_TRUE -> value_bool(b, TRUE)
    [] c.ret = JSONT_FALSE -> value_bool(b, FALSE)
    [] c.ret = JSONT_NULL -> nullValue(b)
    [] OTHER -> b

\* one turn of the loop: pull a token, read its value, pass it on
Pump ==
  /\ driver = "run"
  /\ Len(history) < MaxHist
  /\ LET c == jsont_next(input, Ctx)
     IN  /\ Store(c)
         /\ driver' = IF c.ret = JSONT_END THEN "end"
                      ELSE IF c.ret = JSONT_ERR THEN "error" ELSE "run"
         /\ \E oob \in OutOfBounds :
              LET i == jsont_int_value(input, c, oob)
                  f == jsont_float_value(input, c, oob)
              IN  /\ \E v \in (IF i.ub THEN {INT64_MIN, 0, INT64_MAX}
                                        ELSE {i.result}) :
                        StoreBuilder(Forward(Bld, c, v, f.result))
                  /\ errno' =
                       IF c.ret = JSONT_NUMBER_INT /\ i.ub
                         THEN "EINVAL"
                       ELSE IF c.ret = JSONT_NUMBER_INT /\ i.errno # ""
                         THEN i.errno
                       ELSE IF c.ret = JSONT_NUMBER_FLOAT /\ f.errno # ""
                         THEN f.errno
                       ELSE errno
  /\ int_call' = <<>>
  /\ UNCHANGED <<seized, b_kind, b_prev, b_seq, calls>>

InitRoundTrip == (\E buf \in ValidDocs : Created(buf)) /\ Idle

SpecRoundTrip == InitRoundTrip /\ [][Pump]_vars

---------------------------------------------------------------------------
(* Buffers nested as deep as the structure stack is large. *)
MaxDeepTail == 2   \* longest run of arbitrary bytes behind the nesting

DeepAlphabet == {"[", "{", "]", "}", "1"}

Nest(n) == [i \in 1..n |-> IF i % 2 = 0 THEN "{" ELSE "["]

DeepInputs ==
  {Nest(_STRUCT_TYPE_STACK_SIZE - 1) \o t :
     t \in UNION {[1..k -> DeepAlphabet] : k \in 0..MaxDeepTail}}

InitDeep == (\E buf \in DeepInputs : Created(buf)) /\ Idle

SpecDeep == InitDeep /\ [][Next]_vars

---------------------------------------------------------------------------
(* What the properties below speak of. *)
Called == ret # NULL                  \* jsont_next was called since the reset
Lead == dispatch[Len(dispatch)]       \* the byte the last call ended on
StackBefore == dispatch[1].stack      \* the stack when the last call began
Top(stack) == IF Len(stack) # 0 THEN stack[Len(stack)] ELSE JSONT_END
Tok(t) == [tok |-> t, val |-> <<>>]
Val(t, v) == [tok |-> t, val |-> v]
TokAt(i) == IF i <= Len(history) THEN history[i].tok ELSE NULL

\* buf[q] is an opening quote: a later quote not preceded by a backslash
HasClosingQuote(buf, q) ==
  \E j \in (q + 1)..Len(buf) : buf[j] = "\"" /\ buf[j - 1] # "\\"

ExampleTokens == <<
  Tok(JSONT_OBJECT_START),
  Val(JSONT_FIELD_NAME, <<"n">>), Val(JSONT_NUMBER_INT, <<"4", "2">>),
  Val(JSONT_FIELD_NAME, <<"f">>), Val(JSONT_NUMBER_FLOAT, <<"3", ".", "5">>),
  Val(JSONT_FIELD_NAME, <<"t">>), Tok(JSONT_TRUE),
  Val(JSONT_FIELD_NAME, <<"a">>), Tok(JSONT_ARRAY_START),
  Val(JSONT_NUMBER_INT, <<"1">>), Val(JSONT_NUMBER_INT, <<"2">>),
  Tok(JSONT_ARRAY_END), Tok(JSONT_OBJECT_END), Tok(JSONT_END) >>

\* C1: on the example document the calls of jsont_next return, in order,
\* ObjectStart, FieldName n, Integer 42, FieldName f, Float 3.5, FieldName t,
\* True, FieldName a, ArrayStart, Integer 1, Integer 2, ArrayEnd, ObjectEnd
\* and End (and End from then on); none returns Error.
C1_ExampleTokenSequence ==
  input = ExampleDoc =>
    \A i \in 1..Len(history) :
      history[i] = IF i <= Len(ExampleTokens) THEN ExampleTokens[i]
                                              ELSE Tok(JSONT_END)

C1_Witness ==
  /\ input = ExampleDoc
  /\ Len(history) = Len(ExampleTokens)
  /\ ret = JSONT_END

\* C4: a '}' read while the stack is empty or has ArrayStart on top, and a
\* ']' read while the stack is empty or has ObjectStart on top, make
\* jsont_next return Error with the unexpected-object-end, respectively
\* unexpected-array-end, descriptor and leave the stack as it was; a ',' that
\* is the first token of the input gives Error with the unexpected-comma
\* descriptor; so {], [}, a lone ] and a leading , end in Error.
C4_MismatchedCloserIsError ==
  /\ Called =>
       /\ (/\ Lead.b = "}"
           /\ (Lead.stack = <<>> \/ Top(Lead.stack) = JSONT_ARRAY_START))
          => /\ ret = JSONT_ERR
             /\ error_info = JSONT_ERRINFO_UNEXPECTED_OBJECT_END
             /\ st_stack = StackBefore
       /\ (/\ Lead.b = "]"
           /\ (Lead.stack = <<>> \/ Top(Lead.stack) = JSONT_OBJECT_START))
          => /\ ret = JSONT_ERR
             /\ error_info = JSONT_ERRINFO_UNEXPECTED_ARRAY_END
             /\ st_stack = StackBefore
       /\ \A i \in DOMAIN dispatch :
            (dispatch[i].b = "," /\ Len(history) = 1)
            => /\ i = Len(dispatch)
               /\ ret = JSONT_ERR
               /\ error_info = JSONT_ERRINFO_UNEXPECTED_COMMA
  /\ input \in {<<"{", "]">>, <<"[", "}">>} /\ Len(history) >= 2
       => history[2].tok = JSONT_ERR
  /\ input \in {<<"]">>, <<",">>} /\ Len(history) >= 1
       => history[1].tok = JSONT_ERR

C4_Witness ==
  /\ input = <<"[", "1", "}">>
  /\ Called /\ Lead.b = "}" /\ Lead.stack = <<JSONT_ARRAY_START>>
  /\ ret = JSONT_ERR /\ st_stack = <<JSONT_ARRAY_START>>

\* C5: when the buffer ends inside a literal (fewer than 3 bytes behind a
\* leading n or t, fewer than 4 behind a leading f) or inside a string (no
\* closing quote that is not preceded by a backslash), jsont_next returns End,
\* the cursor is back on the first byte of the construct and the stack is as
\* it was before the call.
C5_TruncatedConstructRewinds ==
  Called =>
    LET rest == Len(input) - (Lead.at + 1)
    IN  (\/ Lead.b \in {"n", "t"} /\ rest < 3
         \/ Lead.b = "f" /\ rest < 4
         \/ Lead.b = "\"" /\ ~HasClosingQuote(input, Lead.at + 1))
        => /\ ret = JSONT_END
           /\ ptr = Lead.at
           /\ st_stack = StackBefore

C5_Witness ==
  /\ input = <<"[", "\"", "x">>
  /\ Called /\ Lead.b = "\"" /\ Lead.at = 1
  /\ ret = JSONT_END /\ ptr = 1 /\ st_stack = <<JSONT_ARRAY_START>>

C5_WitnessLiteral ==
  /\ input = <<"f", "a", "l", "s">>
  /\ Called /\ ret = JSONT_END /\ ptr = 0

\* C6: when a number runs up to the last byte of the buffer (a sign or digit
\* followed only by digits or '.'), jsont_next returns End and the cursor is
\* back on the first byte of the number.
C6_TruncatedNumberRewinds ==
  Called =>
    ((/\ Lead.b \in Digits \cup {"+", "-"}
      /\ \A j \in (Lead.at + 2)..Len(input) : input[j] \in Digits \cup {"."})
     => ret = JSONT_END /\ ptr = Lead.at)

CompletedValueOrCloser ==
  {JSONT_NUMBER_INT, JSONT_NUMBER_FLOAT, JSONT_STRING, JSONT_TRUE, JSONT_FALSE,
   JSONT_NULL, JSONT_OBJECT_END, JSONT_ARRAY_END}

\* C7: a ',' is accepted only right after a completed value (Integer, Float,
\* String, True, False, Null) or a closing bracket, and is then consumed
\* without being returned as a token; anywhere else (at the start, after an
\* opening bracket, after another comma, after End or Error) jsont_next
\* returns Error, with the unexpected-comma descriptor unless an error was
\* already in effect.
C7_CommaOnlyAfterValueOrCloser ==
  \A i \in DOMAIN dispatch :
    dispatch[i].b = "," =>
      IF dispatch[i].tok \in CompletedValueOrCloser
      THEN i < Len(dispatch) /\ ret # _JSONT_COMMA
      ELSE /\ i = Len(dispatch)
           /\ ret = JSONT_ERR
           /\ (dispatch[i].tok # JSONT_ERR
               => error_info = JSONT_ERRINFO_UNEXPECTED_COMMA)

\* C8: a ':' read while the current token is FieldName is consumed without
\* returning a token and without changing the current token or the stack;
\* read with any other current token it makes jsont_next return Error with
\* the unexpected-colon descriptor.
C8_ColonOnlyAfterFieldName ==
  \A i \in DOMAIN dispatch :
    dispatch[i].b = ":" =>
      IF dispatch[i].tok = JSONT_FIELD_NAME
      THEN /\ i < Len(dispatch)
           /\ dispatch[i + 1].at = dispatch[i].at + 1
           /\ dispatch[i + 1].tok = JSONT_FIELD_NAME
           /\ dispatch[i + 1].stack = dispatch[i].stack
      ELSE /\ i = Len(dispatch)
           /\ ret = JSONT_ERR
           /\ error_info = JSONT_ERRINFO_UNEXPECTED_COLON
           /\ curr_tok = JSONT_ERR

C8_Witness ==
  /\ Called /\ Len(dispatch) = 2
  /\ dispatch[1].b = ":" /\ dispatch[1].tok = JSONT_FIELD_NAME
  /\ Lead.b = "[" /\ ret = JSONT_ARRAY_START

C8_WitnessRejected ==
  /\ Called /\ Lead.b = ":" /\ Lead.tok = JSONT_STRING /\ ret = JSONT_ERR

\* C9: a completed quoted token is FieldName exactly when the current token
\* at that moment is ObjectStart, or is the comma marker while the top of the
\* stack is ObjectStart; otherwise it is String.  In {"a":1,"b":2} a and b
\* are FieldName, in ["a","b"] both are String, a quoted value behind a colon
\* is String and so is one behind a comma in an array nested in an object.
C9_FieldNameClassification ==
  /\ (Called /\ Lead.b = "\"" /\ ret \notin {JSONT_END, JSONT_ERR})
       => /\ ret \in {JSONT_FIELD_NAME, JSONT_STRING}
          /\ ret = JSONT_FIELD_NAME <=>
               \/ Lead.tok = JSONT_OBJECT_START
               \/ /\ Lead.tok = _JSONT_COMMA
                  /\ Top(Lead.stack) = JSONT_OBJECT_START
  /\ input = DocObjectAB =>
       /\ TokAt(2) \in {NULL, JSONT_FIELD_NAME}
       /\ TokAt(4) \in {NULL, JSONT_FIELD_NAME}
  /\ input = DocArrayAB =>
       /\ TokAt(2) \in {NULL, JSONT_STRING}
       /\ TokAt(3) \in {NULL, JSONT_STRING}
  /\ input = DocStringField => TokAt(3) \in {NULL, JSONT_STRING}
  /\ input = DocNestedArray => TokAt(5) \in {NULL, JSONT_STRING}
  /\ (/\ Called /\ Len(dispatch) >= 2 /\ Lead.b = "\""
      /\ dispatch[Len(dispatch) - 1].b = ":"
      /\ ret \notin {JSONT_END, JSONT_ERR})
       => ret = JSONT_STRING

C9_Witness ==
  /\ input = DocObjectAB
  /\ Len(history) = 4
  /\ history[4] = Val(JSONT_FIELD_NAME, <<"b">>)
  /\ Lead.tok = _JSONT_COMMA

C9_WitnessNested ==
  /\ input = DocNestedArray
  /\ Len(history) = 5
  /\ history[5] = Val(JSONT_STRING, <<"b">>)
  /\ Lead.tok = _JSONT_COMMA

\* C3: the stack never holds more than _STRUCT_TYPE_STACK_SIZE (512) frames;
\* a '{' or '[' read while it holds exactly that many makes jsont_next return
\* Error with the "Stack size limit exceeded" descriptor and leaves the stack
\* as it was.
C3_StackBounded ==
  /\ Len(st_stack) <= _STRUCT_TYPE_STACK_SIZE
  /\ (Called /\ Lead.b \in {"{", "["}
             /\ Len(Lead.stack) = _STRUCT_TYPE_STACK_SIZE)
       => /\ ret = JSONT_ERR
          /\ curr_tok = JSONT_ERR
          /\ error_info = JSONT_ERRINFO_STACK_SIZE
          /\ st_stack = Lead.stack

C3_Witness ==
  /\ Called /\ Lead.b = "{"
  /\ Len(Lead.stack) = _STRUCT_TYPE_STACK_SIZE
  /\ ret = JSONT_ERR
  /\ Len(st_stack) = _STRUCT_TYPE_STACK_SIZE

\* the current value, as jsont_data_value hands it out
Slice == jsont_data_value(input, [Ctx EXCEPT !.curr_tok = curr_tok])

IsDecimalText(t) ==
  LET digits == IF Len(t) > 0 /\ t[1] \in {"+", "-"} THEN Tail(t) ELSE t
  IN  Len(digits) > 0 /\ \A i \in DOMAIN digits : digits[i] \in Digits

\* the integer a decimal text denotes
RECURSIVE Magnitude(_)
Magnitude(digits) ==
  IF digits = <<>> THEN 0
  ELSE 10 * Magnitude(SubSeq(digits, 1, Len(digits) - 1))
       + DigitValue(digits[Len(digits)])

DecimalValue(t) ==
  IF t[1] = "-" THEN -Magnitude(Tail(t))
  ELSE IF t[1] = "+" THEN Magnitude(Tail(t))
  ELSE Magnitude(t)

\* C10: when the current value is the decimal text of an integer (an optional
\* '+' or '-', then digits), jsont_int_value returns that integer if it lies
\* in LLONG_MIN .. LLONG_MAX (both ends included); if it lies above, the call
\* returns LLONG_MAX and sets errno to ERANGE, if below, LLONG_MIN and ERANGE.
C10_IntValueExactOrClamped ==
  (int_call # <<>> /\ ~_no_value(Ctx) /\ IsDecimalText(Slice)) =>
    LET v == DecimalValue(Slice)
        r == int_call[1].result
    IN  /\ (LLONG_MIN <= v /\ v <= LLONG_MAX) => r = v
        /\ v > LLONG_MAX => (r = LLONG_MAX /\ errno = "ERANGE")
        /\ v < LLONG_MIN => (r = LLONG_MIN /\ errno = "ERANGE")

C10_Witness ==
  /\ int_call # <<>>
  /\ curr_tok = JSONT_NUMBER_INT
  /\ Slice = <<"-">> \o Dec(1 - LLONG_MIN)
  /\ int_call[1].result = LLONG_MIN
  /\ errno = "ERANGE"

C10_WitnessBoundary ==
  /\ int_call # <<>>
  /\ Slice = <<"-">> \o Dec(-LLONG_MIN)
  /\ int_call[1].result = LLONG_MIN
  /\ errno = "0"

C10_WitnessMax ==
  /\ int_call # <<>>
  /\ Slice = Dec(LLONG_MAX)
  /\ int_call[1].result = LLONG_MAX
  /\ errno = "0"

\* the structure of a JSON text: the text without the whitespace between
\* its tokens and with "#" for every number
RECURSIVE Structure(_, _, _)
Structure(t, i, mode) ==
  IF i > Len(t) THEN <<>>
  ELSE LET b == t[i]
       IN  IF mode = "string" THEN
             IF b = "\\" /\ i < Len(t)
               THEN <<b, t[i + 1]>> \o Structure(t, i + 2, "string")
             ELSE <<b>> \o Structure(t, i + 1,
                                     IF b = "\"" THEN "text" ELSE "string")
           ELSE IF mode = "number" THEN
             IF b \in Digits \cup {".", "e", "E", "+", "-"}
               THEN Structure(t, i + 1, "number")
             ELSE Structure(t, i, "text")
           ELSE IF b \in {" ", "\t", "\n", "\r"} THEN Structure(t, i + 1, "text")
           ELSE IF b \in Digits \cup {"-"}
             THEN <<"#">> \o Structure(t, i + 1, "number")
           ELSE <<b>> \o Structure(t, i + 1,
                                   IF b = "\"" THEN "string" ELSE "text")

\* C2: decoding a valid JSON document token by token and handing every token
\* straight to the builder never meets Error, ends with End after at most as
\* many tokens as the document has bytes, and then the output has the
\* structure of the input (whitespace removed, numeric formatting aside).
C2_RoundTrip ==
  input \in ValidDocs =>
    /\ driver # "error"
    /\ Len(history) <= Len(input) + 1
    /\ driver = "end" => Structure(b_buf, 1, "text") = Structure(input, 1, "text")

C2_RoundTripHappens ==
  /\ input = ExampleDoc
  /\ driver = "end"
  /\ b_buf = input

\* C14: when the current token is Error and jsont_next reads a ',', the call
\* returns Error again, the error descriptor is the one from before the call
\* (not replaced by unexpected-comma), and the stack and the value slice are
\* what they were before the call.
C14_CommaAfterErrorKeepsDescriptor ==
  Called =>
    \A i \in DOMAIN dispatch :
      (dispatch[i].b = "," /\ dispatch[i].tok = JSONT_ERR) =>
        /\ i = Len(dispatch)
        /\ ret = JSONT_ERR
        /\ jsont_current = JSONT_ERR
        /\ jsont_error_info = dispatch[1].info
        /\ st_stack = StackBefore
        /\ value_start = dispatch[1].vstart
        /\ value_end = dispatch[1].vend

C14_Witness ==
  /\ input = <<"[", "1", "}", ",">>
  /\ Called /\ Lead.b = "," /\ Lead.tok = JSONT_ERR
  /\ ret = JSONT_ERR
  /\ error_info = JSONT_ERRINFO_UNEXPECTED_OBJECT_END
  /\ st_stack = <<JSONT_ARRAY_START>>
  /\ value_start = 1 /\ value_end = 2


\* C15 as stated: in every reachable state the error descriptor is present
\* exactly when the current token is Error.
C15_DescriptorIffErrorCurrent ==
  (jsont_error_info # NO_ERRINFO) <=> (jsont_current = JSONT_ERR)

\* C15: in every reachable state the error descriptor is present exactly when
\* some call of jsont_next since the last reset returned Error; it is present
\* whenever the current token is Error, and stays when a later call returns
\* another token.
C15_DescriptorSinceError ==
  /\ (jsont_error_info # NO_ERRINFO) <=>
       (\E i \in DOMAIN history : history[i].tok = JSONT_ERR)
  /\ jsont_current = JSONT_ERR => jsont_error_info # NO_ERRINFO

C15_Witness ==
  /\ Len(history) = 2
  /\ history[1].tok = JSONT_ERR
  /\ ret = JSONT_NUMBER_INT /\ jsont_current = JSONT_NUMBER_INT
  /\ jsont_error_info = JSONT_ERRINFO_UNEXPECTED


\* a context fresh from jsont_create and jsont_reset
FreshCtx ==
  [ptr |-> 0, value_start |-> NULL, value_end |-> NULL,
   error_info |-> NO_ERRINFO, curr_tok |-> JSONT_END, st_stack |-> <<>>,
   ret |-> NULL, dispatch |-> <<>>]

\* the tokens and slices of n calls of jsont_next on buf starting from c
RECURSIVE TokensFrom(_, _, _)
TokensFrom(buf, c, n) ==
  IF n = 0 THEN <<>>
  ELSE LET d == jsont_next(buf, [c EXCEPT !.dispatch = <<>>])
       IN  <<[tok |-> d.ret, val |-> jsont_data_value(buf, d)]>>
             \o TokensFrom(buf, d, n - 1)

\* C16: jsont_reset with a buffer is a full reset whatever the context held
\* before: right after it the cursor is at offset 0, the current token is
\* End, the stack is empty, there is no current value and no error
\* descriptor; and the tokens returned after it are those a fresh context
\* returns on the same buffer.
C16_ResetIsFull ==
  reset_from # <<>> =>
    /\ ~Called =>
         /\ jsont_current_offset = 0
         /\ jsont_current = JSONT_END
         /\ st_stack = <<>>
         /\ value_start = NULL /\ value_end = NULL
         /\ jsont_data_length(Ctx) = 0
         /\ jsont_error_info = NO_ERRINFO
    /\ history = TokensFrom(input, FreshCtx, Len(history))

C16_Witness ==
  /\ reset_from = <<[tok |-> JSONT_ERR, depth |-> 1,
                     info |-> JSONT_ERRINFO_UNEXPECTED_OBJECT_END,
                     value |-> FALSE]>>
  /\ input = <<"[", "1">>
  /\ Len(history) = 2
  /\ history[1].tok = JSONT_ARRAY_START


\* the value slice without its optional leading sign
Unsigned(t) == IF Len(t) > 0 /\ t[1] \in {"+", "-"} THEN Tail(t) ELSE t

\* C17: when the value slice holds no digit after the optional sign (the
\* slice is empty, is a lone '-' or '+', or goes on with a non-digit),
\* jsont_int_value sets errno to EINVAL, returns INT64_MIN and reads no byte
\* at an offset greater than the end of the slice, value_end.
C17_NoDigitIsEINVAL ==
  (/\ int_call # <<>>
   /\ ~_no_value(Ctx)
   /\ (Unsigned(Slice) = <<>> \/ Unsigned(Slice)[1] \notin Digits)) =>
      /\ int_call[1].errno = "EINVAL"
      /\ errno = "EINVAL"
      /\ int_call[1].result = INT64_MIN
      /\ ~int_call[1].ub
      /\ int_call[1].reads <= value_end


\* the bytes that start a token or are skipped
TokenBytes ==
  {"{", "}", "[", "]", "n", "t", "f", "\"", ",", ":", " ", "\r", "\n", "\t",
   "+", "-"} \cup Digits

\* C19: a byte inside the buffer that is none of { } [ ] n t f " , : space CR
\* LF TAB, a digit, '+' or '-', read as the start of a token, makes jsont_next
\* return Error with the descriptor "Unexpected input", the byte 0x00
\* included; End is returned only with the cursor at the end of the buffer
\* or on the first byte of a truncated construct.
C19_UnknownByteIsError ==
  Called =>
    /\ (Lead.at < Len(input) /\ input[Lead.at + 1] \notin TokenBytes)
       => /\ ret = JSONT_ERR
          /\ jsont_error_info = JSONT_ERRINFO_UNEXPECTED
    /\ ret = JSONT_END
       => \/ ptr = Len(input)
          \/ /\ Lead.b \in {"n", "t", "f", "\""} \cup Digits \cup {"+", "-"}
             /\ ptr = Lead.at


\* the offset of the first byte at or behind offset k that is neither a digit
\* nor '.', Len(buf) if there is none
RECURSIVE NumberEnd(_, _)
NumberEnd(buf, k) ==
  IF k < Len(buf) /\ buf[k + 1] \in Digits \cup {"."}
  THEN NumberEnd(buf, k + 1) ELSE k

\* C20: when a number (a sign or digit and the digits and '.' behind it) is
\* followed inside the buffer by a byte that is neither a digit nor '.',
\* jsont_next returns Integer if the number holds no '.' and Float otherwise,
\* the value slice is the bytes from the leading sign or digit up to, not
\* including, the terminating byte, and the cursor is on the terminating byte.
C20_NumberEndsBeforeTerminator ==
  (/\ Called
   /\ Lead.b \in Digits \cup {"+", "-"}
   /\ NumberEnd(input, Lead.at + 1) < Len(input)) =>
    LET k == NumberEnd(input, Lead.at + 1)
        text == SubSeq(input, Lead.at + 1, k)
    IN  /\ ret = IF \E i \in DOMAIN text : text[i] = "."
                 THEN JSONT_NUMBER_FLOAT ELSE JSONT_NUMBER_INT
        /\ jsont_current = ret
        /\ value_start = Lead.at
        /\ value_end = k
        /\ Slice = text
        /\ jsont_data_length(Ctx) = Len(text)
        /\ jsont_current_offset = k

C20_Witness ==
  /\ input = <<"[", "+", "1", ",", "-", "2", ".", "5", "]">>
  /\ Called /\ Lead.at = 4
  /\ ret = JSONT_NUMBER_FLOAT
  /\ Slice = <<"-", "2", ".", "5">>
  /\ ptr = 8

C20_WitnessInteger ==
  /\ input = <<"[", "1", "-", ",">>
  /\ Called /\ Lead.at = 1
  /\ ret = JSONT_NUMBER_INT
  /\ Slice = <<"1">>
  /\ ptr = 2

C20_WitnessZeroByte ==
  /\ input = <<"1", NUL, "1">>
  /\ Called /\ Lead.at = 0
  /\ ret = JSONT_NUMBER_INT
  /\ Slice = <<"1">>
  /\ ptr = 1


---------------------------------------------------------------------------
(* What the properties of the builder speak of. *)
LastCall == b_seq[Len(b_seq)]         \* the last call made on the builder
Before == b_prev[1]                   \* the builder before that call

Quoted(v) == <<"\"">> \o v \o <<"\"">>

\* what a call is to add to the output behind the separator
Content(c) ==
  CASE c.op = "startObject" -> <<"{">>
    [] c.op = "endObject" -> <<"}">>
    [] c.op = "startArray" -> <<"[">>
    [] c.op = "endArray" -> <<"]">>
    [] c.op \in {"fieldName", "value_string"} -> Quoted(c.s)
    [] c.op = "value_int64" /\ c.i = 1 -> <<"1">>
    [] c.op = "value_int64" /\ c.i = -12 -> <<"-", "1", "2">>
    [] c.op = "value_double" /\ c.d = Double(FALSE, 15, -1) -> <<"1", ".", "5">>
    [] c.op = "value_double" /\ c.d = Double(TRUE, 25, -1)
         -> <<"-", "2", ".", "5">>
    [] c.op = "value_double" /\ c.d = NaN -> <<"n", "a", "n">>
    [] c.op = "value_bool" -> IF c.t THEN <<"t", "r", "u", "e">>
                                     ELSE <<"f", "a", "l", "s", "e">>
    [] c.op = "nullValue" -> <<"n", "u", "l", "l">>

Separator(state) ==
  IF state = "AfterFieldName" THEN <<":">>
  ELSE IF state = "AfterValue" THEN <<",">>
  ELSE <<>>

Values == {"value_string", "value_int64", "value_double", "value_bool"}

\* C11: a call of fieldName, startObject, startArray, value or nullValue
\* adds to the output ':' if the state was AfterFieldName, ',' if it was
\* AfterValue and nothing otherwise, and then its content; endObject and
\* endArray add their closer only; the state afterwards is AfterFieldName for
\* fieldName, AfterValue for a value, nullValue, endObject and endArray, and
\* AfterObjectStart, AfterArrayStart for startObject, startArray.  The calls
\* startObject, fieldName("x"), value(1), fieldName("y"), value(false),
\* endObject produce {"x":1,"y":false}.
C11_SeparatorThenContent ==
  /\ (b_seq # <<>> /\ LastCall.op \notin {"seizeBytes", "reset"}) =>
       /\ b_buf = Before.buf
                    \o (IF LastCall.op \in {"endObject", "endArray"}
                        THEN <<>> ELSE Separator(Before.state))
                    \o Content(LastCall)
       /\ b_state =
            CASE LastCall.op = "fieldName" -> "AfterFieldName"
              [] LastCall.op = "startObject" -> "AfterObjectStart"
              [] LastCall.op = "startArray" -> "AfterArrayStart"
              [] OTHER -> "AfterValue"
  /\ b_seq = ExampleCalls =>
       b_buf = <<"{", "\"", "x", "\"", ":", "1", ",", "\"", "y", "\"", ":",
                 "f", "a", "l", "s", "e", "}">>

C11_Witness ==
  /\ b_kind = "hh"
  /\ b_seq = ExampleCalls
  /\ b_state = "AfterValue"
  /\ Len(b_buf) = 17

C11_WitnessSeparators ==
  /\ b_kind = "hh"
  /\ b_seq \in {<<IntOf(1), Call("endArray"), Call("nullValue")>>,
                <<FieldNameOf(<<"x">>), Call("endObject")>>,
                <<FieldNameOf(<<"x">>), Call("startArray")>>}
  /\ b_buf \in {<<"1", "]", ",", "n", "u", "l", "l">>,
                <<"\"", "x", "\"", "}">>,
                <<"\"", "x", "\"", ":", "[">>}


\* whether every call of seq is one a structurally valid sequence may make
\* at its place: stack holds the open containers, pending says that a field
\* name waits for its value, tops counts the values begun at top level, of
\* which there may be many unless single
RECURSIVE ValidFrom(_, _, _, _, _, _)
ValidFrom(seq, i, stack, pending, tops, single) ==
  IF i > Len(seq) THEN TRUE
  ELSE
    LET c == seq[i]
        top == IF stack = <<>> THEN "top" ELSE stack[Len(stack)]
        popped == SubSeq(stack, 1, Len(stack) - 1)
        place == \/ top = "top" /\ (~single \/ tops = 0)
                 \/ top = "arr"
                 \/ top = "obj" /\ pending
        tops1 == IF top = "top" THEN tops + 1 ELSE tops
    IN  CASE c.op \in Values \cup {"nullValue"} ->
               place /\ ValidFrom(seq, i + 1, stack, FALSE, tops1, single)
          [] c.op = "startObject" ->
               /\ place
               /\ ValidFrom(seq, i + 1, Append(stack, "obj"), FALSE, tops1,
                            single)
          [] c.op = "startArray" ->
               /\ place
               /\ ValidFrom(seq, i + 1, Append(stack, "arr"), FALSE, tops1,
                            single)
          [] c.op = "fieldName" ->
               /\ top = "obj" /\ ~pending
               /\ ValidFrom(seq, i + 1, stack, TRUE, tops, single)
          [] c.op = "endObject" ->
               /\ top = "obj" /\ ~pending
               /\ ValidFrom(seq, i + 1, popped, FALSE, tops, single)
          [] c.op = "endArray" ->
               /\ top = "arr"
               /\ ValidFrom(seq, i + 1, popped, FALSE, tops, single)
          [] OTHER -> FALSE

\* each closer matches the innermost open container, field names come only
\* directly inside objects and each is followed by exactly one value or
\* container, values come only at top level, in arrays or after a field name
StructurallyValid(seq) == ValidFrom(seq, 1, <<>>, FALSE, 0, FALSE)

\* the same, and the top level holds one value or container at most
SingleValue(seq) == ValidFrom(seq, 1, <<>>, FALSE, 0, TRUE)

\* text that JSON takes between quotes as it is, and finite numbers
PlainArguments(seq) ==
  \A j \in DOMAIN seq :
    /\ \A k \in DOMAIN seq[j].s : seq[j].s[k] \notin {"\"", "\\", NUL}
    /\ ~seq[j].d.nan

\* whether t[i .. Len(t)] can go on a JSON text read so far: stack holds the
\* open brackets, mode says what may come next, rest is what is left of a
\* literal under way
RECURSIVE JsonScan(_, _, _, _, _)
JsonScan(t, i, stack, mode, rest) ==
  IF i > Len(t) THEN TRUE
  ELSE
    LET b == t[i]
        top == IF stack = <<>> THEN "" ELSE stack[Len(stack)]
        go(m) == JsonScan(t, i + 1, stack, m, <<>>)
        literal(r) == JsonScan(t, i + 1, stack, "literal", r)
        open == JsonScan(t, i + 1, Append(stack, b),
                         IF b = "{" THEN "member" ELSE "first", <<>>)
        close == JsonScan(t, i + 1, SubSeq(stack, 1, Len(stack) - 1),
                          "after", <<>>)
        \* on to the next byte of a string that is not plain text
        plain ==
          LET stops == {j \in i..Len(t) : t[j] \in {"\"", "\\", NUL}}
          IN  IF stops = {} THEN TRUE
              ELSE JsonScan(t, CHOOSE j \in stops : \A k \in stops : j <= k,
                            stack, mode, <<>>)
        value ==
          CASE b \in {"{", "["} -> open
            [] b = "\"" -> go("string")
            [] b = "-" -> go("minus")
            [] b = "0" -> go("zero")
            [] b \in Digits \ {"0"} -> go("int")
            [] b = "t" -> literal(<<"r", "u", "e">>)
            [] b = "f" -> literal(<<"a", "l", "s", "e">>)
            [] b = "n" -> literal(<<"u", "l", "l">>)
            [] OTHER -> FALSE
        after ==
          CASE b = "," /\ top = "[" -> go("value")
            [] b = "," /\ top = "{" -> go("name")
            [] b = "]" /\ top = "[" -> close
            [] b = "}" /\ top = "{" -> close
            [] OTHER -> FALSE
    IN  CASE b \in {" ", "\t", "\n", "\r"}
               /\ mode \in {"value", "first", "member", "name", "colon",
                            "after"} -> go(mode)
          [] mode = "value" -> value
          [] mode = "first" -> IF b = "]" THEN close ELSE value
          [] mode = "member" ->
               IF b = "}" THEN close ELSE b = "\"" /\ go("namestring")
          [] mode = "name" -> b = "\"" /\ go("namestring")
          [] mode = "colon" -> b = ":" /\ go("value")
          [] mode \in {"string", "namestring"} ->
               IF b = "\"" THEN go(IF mode = "string" THEN "after" ELSE "colon")
               ELSE IF b = "\\"
                 THEN go(IF mode = "string" THEN "escape" ELSE "nameescape")
               ELSE b # NUL /\ plain
          [] mode \in {"escape", "nameescape"} ->
               /\ b \in {"\"", "\\", "/", "b", "f", "n", "r", "t"}
               /\ go(IF mode = "escape" THEN "string" ELSE "namestring")
          [] mode = "literal" ->
               /\ rest # <<>> /\ b = rest[1]
               /\ IF Len(rest) = 1 THEN go("after") ELSE literal(Tail(rest))
          [] mode = "minus" ->
               IF b = "0" THEN go("zero") ELSE b \in Digits /\ go("int")
          [] mode = "zero" ->
               IF b = "." THEN go("dot")
               ELSE IF b \in {"e", "E"} THEN go("e") ELSE after
          [] mode = "int" ->
               IF b \in Digits THEN go("int")
               ELSE IF b = "." THEN go("dot")
               ELSE IF b \in {"e", "E"} THEN go("e") ELSE after
          [] mode = "dot" -> b \in Digits /\ go("frac")
          [] mode = "frac" ->
               IF b \in Digits THEN go("frac")
               ELSE IF b \in {"e", "E"} THEN go("e") ELSE after
          [] mode = "e" ->
               IF b \in {"+", "-"} THEN go("esign")
               ELSE b \in Digits /\ go("exp")
          [] mode = "esign" -> b \in Digits /\ go("exp")
          [] mode = "exp" -> IF b \in Digits THEN go("exp") ELSE after
          [] mode = "after" -> after
          [] OTHER -> FALSE

\* t is the beginning of some valid JSON text
JsonPrefix(t) == JsonScan(t, 1, <<>>, "value", <<>>)

\* C12 as stated: after every call of a structurally valid sequence of
\* calls the output is a prefix of some valid JSON text.
C12_ValidCallsGiveJsonPrefix ==
  StructurallyValid(b_seq) => JsonPrefix(b_buf)

\* C12: after every call of a structurally valid sequence of calls that puts
\* one value or container at most at top level, whose text arguments hold no
\* quote, backslash or control byte and whose numbers are finite, the output
\* is a prefix of some valid JSON text: ':' and ',' stand between a field
\* name and its value and between sibling members only, never behind an
\* opening bracket and never in front of a closing one.
C12_SingleValueGivesJsonPrefix ==
  (SingleValue(b_seq) /\ PlainArguments(b_seq)) => JsonPrefix(b_buf)

C12_Witness ==
  /\ b_seq = NestedCalls
  /\ SingleValue(b_seq) /\ PlainArguments(b_seq)
  /\ b_buf = <<"[", "{", "\"", "x", "\"", ":", "[", "]", ",", "\"", "\"",
               ":", "-", "1", "2", "}", ",", "\"", "\"", ",", "n", "u", "l",
               "l", ",", "-", "2", ".", "5", "]">>


\* the builder after the call c on the builder b of the given kind
Apply(kind, b, c) ==
  CASE c.op = "startObject" -> startObject(b)
    [] c.op = "endObject" -> endObject(b)
    [] c.op = "startArray" -> startArray(b)
    [] c.op = "endArray" -> endArray(b)
    [] c.op = "fieldName" -> fieldName(b, c.s)
    [] c.op = "value_string" -> value_string(b, c.s)
    [] c.op = "value_int64" -> value_int64(b, c.i)
    [] c.op = "value_double" -> value_double(b, c.d)
    [] c.op = "value_bool" -> value_bool(b, c.t)
    [] c.op = "nullValue" -> nullValue(b)
    [] c.op = "seizeBytes" -> IF kind = "hh" THEN seizeBytes(b)
                                             ELSE seizeBytes_h(b)
    [] c.op = "reset" -> reset(b)

\* the builder after the calls seq[i .. Len(seq)] on the builder b
RECURSIVE Replay(_, _, _, _)
Replay(kind, b, seq, i) ==
  IF i > Len(seq) THEN b
  ELSE Replay(kind, Apply(kind, [b EXCEPT !.grown = <<>>, !.steps = <<>>], seq[i]), seq, i + 1)

\* a builder as its constructor leaves it
FreshBuilder ==
  [buf |-> <<>>, alloc |-> FALSE, capacity |-> 0, state |-> "NeutralState",
   grown |-> <<>>, steps |-> <<>>]

\* C13: seizeBytes hands out the buffer and, as its length, the size built so
\* far, and leaves the builder with size 0, capacity 0, no buffer and the
\* state Neutral, in whatever state it is called; what the calls after it
\* build is what they build on a freshly constructed builder, so the first of
\* them emits no leading ':' or ','.  This holds for the Builder of jsont.hh
\* and for the Builder of jsont.h.
C13_SeizeLeavesFreshBuilder ==
  \A k \in DOMAIN b_seq :
    (/\ b_seq[k].op = "seizeBytes"
     /\ \A j \in (k + 1)..Len(b_seq) : b_seq[j].op # "seizeBytes") =>
      /\ k = Len(b_seq) =>
           /\ seized = <<[buf |-> Before.buf, size_out |-> Len(Before.buf),
                          alloc |-> Before.alloc]>>
           /\ size(Bld) = 0 /\ b_capacity = 0 /\ ~b_alloc
           /\ b_state = "NeutralState"
      /\ [Bld EXCEPT !.grown = b_grown, !.steps = b_steps]
           = Replay(b_kind, FreshBuilder, SubSeq(b_seq, k + 1, Len(b_seq)), 1)


\* C18 as stated: a reallocation takes the capacity to the greater of 64 and
\* one and a half times the capacity before it plus the shortfall, the
\* requested bytes less the available ones.
C18_GrowthByHalfPlusShortfall ==
  \A j \in DOMAIN b_grown :
    LET g == b_grown[j]
        shortfall == g.requested - g.available
        wanted == (g.capacity * 3) \div 2 + shortfall
    IN  g.to = IF wanted > 64 THEN wanted ELSE 64

\* C18: whenever an append needs more room than remains, the capacity after
\* the growth is 64 if the capacity before it plus the shortfall (requested
\* less available bytes) is below 64, and else one and a half times that sum,
\* rounded down; a call that finds room enough leaves the capacity alone.
C18_GrowthOfWhatIsNeeded ==
  /\ \A j \in DOMAIN b_grown :
       LET g == b_grown[j]
           shortfall == g.requested - g.available
           needed == g.capacity + shortfall
       IN  /\ shortfall > 0
           /\ g.to = IF needed < 64 THEN 64 ELSE (needed * 3) \div 2
  /\ b_grown # <<>> => b_capacity = b_grown[Len(b_grown)].to
  /\ b_grown = <<>> /\ b_seq # <<>>
       => b_capacity = IF LastCall.op = "seizeBytes" THEN 0
                       ELSE Before.capacity

C18_Witness ==
  b_grown = <<[capacity |-> 97, available |-> 30, requested |-> 256,
               to |-> 484]>>

C18_WitnessFloor ==
  /\ b_seq = <<StringOf(Zeros(48))>>
  /\ b_grown = <<[capacity |-> 0, available |-> 0, requested |-> 50,
                  to |-> 64]>>


\* the index of the first '"' behind index q whose preceding byte is no
\* backslash
ClosingQuote(buf, q) ==
  CHOOSE j \in (q + 1)..Len(buf) :
    /\ buf[j] = "\"" /\ buf[j - 1] # "\\"
    /\ \A k \in (q + 1)..(j - 1) : ~(buf[k] = "\"" /\ buf[k - 1] # "\\")

\* C21: for a string whose closing quote (the first later '"' whose preceding
\* byte is not a backslash) lies inside the buffer, jsont_next returns String
\* or FieldName, the value slice is the bytes strictly between the opening
\* and that closing quote, undecoded and of length zero for the empty
\* string, and the cursor is one past the closing quote.
C21_StringSliceBetweenQuotes ==
  (/\ Called
   /\ Lead.b = "\""
   /\ HasClosingQuote(input, Lead.at + 1)) =>
    LET q == Lead.at + 1
        j == ClosingQuote(input, q)
    IN  /\ ret \in {JSONT_STRING, JSONT_FIELD_NAME}
        /\ jsont_current = ret
        /\ value_start = q
        /\ value_end = j - 1
        /\ Slice = SubSeq(input, q + 1, j - 1)
        /\ jsont_data_length(Ctx) = j - 1 - q
        /\ jsont_current_offset = j


\* C22: an 'n' or 't' with at least 3 bytes behind it in the buffer, and an
\* 'f' with at least 4, make jsont_next skip those 3, respectively 4, bytes
\* whatever they are and return Null, True or False; the stack stays as it
\* was.
C22_LiteralByLeadingLetter ==
  Called =>
    LET rest == Len(input) - (Lead.at + 1)
        slacklen == IF Lead.b = "f" THEN 4 ELSE 3
    IN  (Lead.b \in {"n", "t", "f"} /\ rest >= slacklen) =>
          /\ ret = CASE Lead.b = "n" -> JSONT_NULL
                     [] Lead.b = "t" -> JSONT_TRUE
                     [] Lead.b = "f" -> JSONT_FALSE
          /\ jsont_current = ret
          /\ jsont_current_offset = Lead.at + 1 + slacklen
          /\ st_stack = StackBefore
          /\ jsont_data_length(Ctx) = 0

C22_Witness ==
  /\ input = <<"{", "f", "}", "}", "}", "}">>
  /\ Called /\ Lead.b = "f" /\ Lead.at = 1
  /\ ret = JSONT_FALSE
  /\ ptr = 6
  /\ st_stack = <<JSONT_OBJECT_START>>

C22_WitnessNull ==
  /\ input = <<"n", "u", "l", "l", " ">>
  /\ Called /\ Lead.b = "n"
  /\ ret = JSONT_NULL /\ ptr = 4


\* C23: the stack holds ObjectStart and ArrayStart markers only, and as many
\* as ObjectStart and ArrayStart tokens were returned since the last reset
\* less the ObjectEnd and ArrayEnd tokens returned; a call pushes exactly
\* when it returns ObjectStart or ArrayStart, and then that marker, pops
\* exactly when it returns ObjectEnd or ArrayEnd, and then the opener of the
\* same kind, and leaves the stack as it was when it returns anything else,
\* End and Error included.
C23_StackTracksNesting ==
  /\ \A i \in DOMAIN st_stack :
       st_stack[i] \in {JSONT_OBJECT_START, JSONT_ARRAY_START}
  /\ Len(st_stack) = opens - closes
  /\ Called =>
       /\ IsOpen(ret) => st_stack = Append(StackBefore, ret)
       /\ ret = JSONT_OBJECT_END =>
            /\ Top(StackBefore) = JSONT_OBJECT_START
            /\ st_stack = Pop(StackBefore)
       /\ ret = JSONT_ARRAY_END =>
            /\ Top(StackBefore) = JSONT_ARRAY_START
            /\ st_stack = Pop(StackBefore)
       /\ (~IsOpen(ret) /\ ~IsClose(ret)) => st_stack = StackBefore

C23_Witness ==
  /\ Called /\ Lead.b = "}"
  /\ ret = JSONT_OBJECT_END
  /\ StackBefore = <<JSONT_ARRAY_START, JSONT_OBJECT_START>>
  /\ st_stack = <<JSONT_ARRAY_START>>
  /\ opens = 3 /\ closes = 2

C23_WitnessError ==
  /\ Called /\ Lead.b = "]"
  /\ ret = JSONT_ERR
  /\ st_stack = <<JSONT_OBJECT_START>>
  /\ opens = 1 /\ closes = 0


\* C24: a call of jsont_next that returns a token other than End and Error
\* leaves the cursor greater than it was when the call began, so the calls
\* made until the first End or Error are at most one more than the buffer
\* has bytes; buffers ending in a digit, a sign or '.' included.
C24_ProgressUntilEndOrError ==
  /\ (Called /\ ret \notin {JSONT_END, JSONT_ERR})
       => jsont_current_offset > dispatch[1].at
  /\ (\A i \in DOMAIN history : history[i].tok \notin {JSONT_END, JSONT_ERR})
       => Len(history) <= Len(input)


\* C25: the cursor is always within 0 .. input length; after a call of
\* jsont_next it is not smaller than it was when the call began, and not
\* smaller than the offset of the first byte of the construct the call
\* scanned last: a rewind takes back bytes of the same call only.
C25_CursorInBoundsAndMonotonic ==
  /\ 0 <= jsont_current_offset
  /\ jsont_current_offset <= Len(input)
  /\ Called =>
       /\ jsont_current_offset >= dispatch[1].at
       /\ jsont_current_offset >= Lead.at
       /\ \A i \in DOMAIN dispatch :
            /\ 0 <= dispatch[i].at /\ dispatch[i].at <= Len(input)
            /\ i > 1 => dispatch[i].at > dispatch[i - 1].at

C25_Witness ==
  /\ input = <<" ", "\"", "x">>
  /\ Called /\ ret = JSONT_END
  /\ dispatch[1].at = 0
  /\ Lead.b = "\"" /\ Lead.at = 1
  /\ ptr = 1

C25_WitnessNumber ==
  /\ input = <<" ", "1", ".">>
  /\ Called /\ ret = JSONT_NUMBER_FLOAT
  /\ dispatch[1].at = 0
  /\ Lead.at = 1
  /\ ptr = 2



(***************************************************************************)
(* C26: while the current token is Integer, Float, String or FieldName the *)
(* value slice was set by the call that returned the token and satisfies   *)
(* 0 <= start <= end <= cursor <= input length; while the current token is *)
(* End, Error, a structural token or True/False/Null, jsont_data_value     *)
(* reports length 0 and jsont_strcpy_value returns nothing, also when the  *)
(* slice of an earlier token is still stored.                              *)
(***************************************************************************)
ValueTokens ==
  {JSONT_NUMBER_INT, JSONT_NUMBER_FLOAT, JSONT_STRING, JSONT_FIELD_NAME}

NoValueTokens ==
  {JSONT_END, JSONT_ERR, JSONT_OBJECT_START, JSONT_OBJECT_END,
   JSONT_ARRAY_START, JSONT_ARRAY_END, JSONT_TRUE, JSONT_FALSE, JSONT_NULL}

C26_SliceOfValueTokensOnly ==
  /\ jsont_current \in ValueTokens =>
       /\ Called /\ ret = jsont_current
       /\ value_start =
            (IF jsont_current \in {JSONT_STRING, JSONT_FIELD_NAME}
             THEN Lead.at + 1 ELSE Lead.at)
       /\ 0 <= value_start
       /\ value_start <= value_end
       /\ value_end <= jsont_current_offset
       /\ jsont_current_offset <= Len(input)
       /\ jsont_data_length(Ctx) = value_end - value_start
       /\ jsont_data_value(input, Ctx) = SubSeq(input, value_start + 1, value_end)
       /\ jsont_strcpy_value(input, Ctx) = Append(jsont_data_value(input, Ctx), NUL)
  /\ jsont_current \in NoValueTokens =>
       /\ jsont_data_length(Ctx) = 0
       /\ jsont_data_value(input, Ctx) = <<>>
       /\ jsont_strcpy_value(input, Ctx) = NULL
  /\ jsont_current \in ValueTokens \cup NoValueTokens

\* "]" after "[1": the slice of the 1 is still stored, and is not reported
C26_Witness ==
  /\ input = <<"[", "1", "]">>
  /\ jsont_current = JSONT_ARRAY_END
  /\ value_start = 1 /\ value_end = 2
  /\ jsont_data_length(Ctx) = 0

\* a string's slice
C26_WitnessString ==
  /\ input = <<"\"", "x", "\"">>
  /\ jsont_current = JSONT_STRING
  /\ value_start = 1 /\ value_end = 2 /\ jsont_current_offset = 3
  /\ jsont_strcpy_value(input, Ctx) = <<"x", NUL>>

\* the end of the buffer inside a string moves the stored start, not the end
C26_WitnessStale ==
  /\ input = <<"1", " ", "\"">>
  /\ jsont_current = JSONT_END
  /\ value_start = 3 /\ value_end = 1
  /\ jsont_data_length(Ctx) = 0


(***************************************************************************)
(* C27: through every sequence of append calls, seizeBytes and reset on a  *)
(* builder the size stays at or below the capacity, a capacity above 0     *)
(* comes with an allocated buffer, and no byte is written at an index at   *)
(* or beyond the capacity: every write follows a reserve of at least as    *)
(* many bytes, 1 for a bracket or a separator, length + 2 for a quoted     *)
(* string, 4 and 5 for true and false, 4 for null, 21 for an integer and   *)
(* 256 for a float.                                                        *)
(***************************************************************************)
\* the bytes the call reserves for what it appends after its separator
Asked(c) ==
  CASE c.op \in {"startObject", "endObject", "startArray", "endArray"} -> 1
    [] c.op \in {"fieldName", "value_string"} -> Len(c.s) + 2
    [] c.op = "value_int64" -> 21
    [] c.op = "value_double" -> 256
    [] c.op = "value_bool" -> IF c.t THEN 4 ELSE 5
    [] c.op = "nullValue" -> 4
    [] OTHER -> 0

IsReserve(step) == step.op = "reserve"

C27_WritesWithinCapacity ==
  /\ size(Bld) <= b_capacity
  /\ b_capacity > 0 => b_alloc
  /\ \A i \in DOMAIN b_steps :
       b_steps[i].op = "write" =>
         /\ i > 1
         /\ b_steps[i - 1].op = "reserve"
         /\ b_steps[i - 1].n >= b_steps[i].n
         /\ b_steps[i].at + b_steps[i].n <= b_steps[i].capacity
  /\ b_seq # <<>> =>
       LET r == SelectSeq(b_steps, IsReserve)
       IN  IF LastCall.op \in {"seizeBytes", "reset"} THEN b_steps = <<>>
           ELSE /\ r # <<>>
                /\ r[Len(r)].n = Asked(LastCall)
                /\ \A j \in 1..(Len(r) - 1) : r[j].n = 1
                /\ b_steps[Len(b_steps)].op = "write"

\* a string of 61 bytes after "[" fills the first 64 bytes to the last one
C27_Witness ==
  /\ b_seq = <<Call("startArray"), StringOf(Zeros(61))>>
  /\ b_steps = <<Reserved(63), Written(1, 63, 64)>>
  /\ size(Bld) = 64 /\ b_capacity = 64 /\ b_alloc

\* the NUL of snprintf after a separator that made the buffer grow
C27_WitnessInteger ==
  /\ b_seq = <<Call("startArray"), StringOf(Zeros(61)), IntOf(1)>>
  /\ b_steps = <<Reserved(1), Written(64, 1, 97),
                 Reserved(21), Written(65, 2, 97)>>

\* reset keeps the buffer and its capacity, seizeBytes gives both away
C27_WitnessReset ==
  /\ b_seq = <<Call("startArray"), Call("reset"), StringOf(Zeros(70))>>
  /\ b_steps = <<Reserved(72), Written(0, 72, 108)>>


(***************************************************************************)
(* C28: after every call of jsont_next, jsont_current returns the token    *)
(* the call returned, and that token is never the comma marker: the marker *)
(* is the current token only inside a call, after a "," it has accepted,   *)
(* and the call goes on to set and return one of the public tokens, at     *)
(* least End.                                                              *)
(***************************************************************************)
PublicTokens ==
  {JSONT_END, JSONT_ERR, JSONT_OBJECT_START, JSONT_OBJECT_END,
   JSONT_ARRAY_START, JSONT_ARRAY_END, JSONT_TRUE, JSONT_FALSE, JSONT_NULL,
   JSONT_NUMBER_INT, JSONT_NUMBER_FLOAT, JSONT_STRING, JSONT_FIELD_NAME}

C28_CurrentIsReturnedNeverComma ==
  /\ jsont_current \in PublicTokens
  /\ \A i \in DOMAIN history : history[i].tok \in PublicTokens
  /\ Called =>
       /\ jsont_current = ret
       /\ dispatch[1].tok \in PublicTokens
       /\ \A i \in DOMAIN dispatch :
            dispatch[i].tok = _JSONT_COMMA =>
              /\ i > 1
              /\ \E j \in 1..(i - 1) :
                   /\ dispatch[j].b = ","
                   /\ ~CommaRejected(dispatch[j].tok)
                   /\ \A k \in (j + 1)..(i - 1) :
                        dispatch[k].b \in {" ", "\r", "\n", "\t"}

\* the end of the buffer right behind an accepted ",": the call returns End
C28_Witness ==
  /\ input = <<"[", "1", ",">>
  /\ Len(dispatch) = 2
  /\ dispatch[1].b = "," /\ dispatch[1].tok = JSONT_NUMBER_INT
  /\ dispatch[2].b = NUL /\ dispatch[2].tok = _JSONT_COMMA
  /\ ret = JSONT_END /\ jsont_current = JSONT_END

\* a second "," meets the marker and is passed over like the first
C28_WitnessTwoCommas ==
  /\ input = <<"[", "1", ",", ",", "2", "]">>
  /\ Len(dispatch) = 3
  /\ dispatch[2].b = "," /\ dispatch[2].tok = _JSONT_COMMA
  /\ dispatch[3].tok = _JSONT_COMMA
  /\ ret = JSONT_NUMBER_INT /\ jsont_current = JSONT_NUMBER_INT

====
